---- MODULE Spec2Model ----
(***************************************************************************)
(* Locale resolution and URL mapping of the multilingual multisite front   *)
(* end: scripts/language-config.js and scripts/language-mapping.js.        *)
(*                                                                         *)
(* Strings.  A JavaScript string is modelled by the list of pieces that    *)
(* split() by its separator yields, which determines the string: a URL     *)
(* path is the tuple path.split('/') ("/en/uk/about" is                    *)
(* <<"", "en", "uk", "about">>, "/" is <<"", "">>, "" is <<"">>), and a    *)
(* locale key is the tuple key.split('-') ("en-uk" is <<"en", "uk">>).     *)
(* Language and country codes are one piece (they hold no '/' and no '-'). *)
(*                                                                         *)
(* Values.  A JavaScript value is a record tagged by t: undefined, null, a *)
(* string (s holds its pieces), an object (props maps property names to    *)
(* values) or an array (items).                                            *)
(***************************************************************************)
EXTENDS Integers, Sequences, FiniteSets, TLC

(***************************************************************************)
(* Bounds of the model.                                                    *)
(***************************************************************************)
\* load cycles (runs of the async body of loadMappings) one behaviour starts
MaxLoads == 2
\* concurrent direct callers of loadMappings
NumCallers == 2
\* rows of the data array of /url-mappings.json
MaxRows == 2
\* calls of mapUrlToLanguage in one behaviour
NumMapCalls == 2
\* pieces of path.split('/') of a parsed path
MaxPieces == 4
\* calls of the language switcher's decorate in one behaviour
NumDecorates == 2
\* rows of a tabs block
MaxTabRows == 3
\* rows of a sheet that repeats a source
MaxRepeatedRows == 3
\* intersection observers created on one info-counter block
MaxObservers == 2

(***************************************************************************)
(* JavaScript values                                                       *)
(***************************************************************************)
Undefined == [t |-> "undefined"]
Null == [t |-> "null"]
Str(s) == [t |-> "string", s |-> s]
Obj(props) == [t |-> "object", props |-> props]
Arr(items) == [t |-> "array", items |-> items]
Bool(b) == [t |-> "boolean", b |-> b]

\* the empty object {} (no own property)
EmptyObject == <<>>

\* ToBoolean(v): undefined, null and '' are falsy
Truthy(v) ==
  CASE v.t = "undefined" -> FALSE
    [] v.t = "null" -> FALSE
    [] v.t = "string" -> v.s # <<"">>
    [] v.t = "boolean" -> v.b
    [] OTHER -> TRUE

\* a || b
Or(a, b) == IF Truthy(a) THEN a ELSE b

\* reading a property of null or undefined throws a TypeError
GetThrows(v) == v.t \in {"undefined", "null"}

\* v[name] (v.name) where it does not throw: a missing property, and any
\* named property of a string, is undefined
Get(v, name) ==
  IF v.t = "object" /\ name \in DOMAIN v.props THEN v.props[name] ELSE Undefined

\* { ...v }: the own properties of an object, none of undefined or null
Spread(v) == IF v.t = "object" THEN v.props ELSE EmptyObject

\* v?.name
GetOptional(v, name) == IF GetThrows(v) THEN Undefined ELSE Get(v, name)

\* a + b for two strings split by the same separator, the second starting
\* with the separator (its first piece is '')
Concat(a, b) == a \o Tail(b)

\* the elements of a tuple
Range(seq) == {seq[i] : i \in 1..Len(seq)}

\* the filter left out: the empty pieces kept
FilterNonEmpty_keepingEmpty(seq) == seq

\* seq.filter(Boolean) on a tuple of pieces: drops the empty pieces
RECURSIVE FilterNonEmpty(_)
FilterNonEmpty(seq) ==
  IF seq = <<>> THEN <<>>
  ELSE IF Head(seq) = "" THEN FilterNonEmpty(Tail(seq))
  ELSE <<Head(seq)>> \o FilterNonEmpty(Tail(seq))

(***************************************************************************)
(* scripts/language-config.js                                              *)
(***************************************************************************)
COUNTRY_FIRST_LOCALES == <<"ch">>

SUPPORTED_LOCALES ==
  << [lang |-> "en", country |-> "uk", hreflang |-> "en-GB"],
     [lang |-> "en", country |-> "us", hreflang |-> "en-US"],
     [lang |-> "de", country |-> "ch", hreflang |-> "de-CH"],
     [lang |-> "fr", country |-> "ch", hreflang |-> "fr-CH"],
     [lang |-> "de", country |-> "de", hreflang |-> "de-DE"],
     [lang |-> "fr", country |-> "fr", hreflang |-> "fr-FR"],
     [lang |-> "it", country |-> "it", hreflang |-> "it-IT"],
     [lang |-> "pl", country |-> "pl", hreflang |-> "pl-PL"] >>

DEFAULT_LOCALE == [lang |-> "en", country |-> "uk"]

getLocaleOrder(country) ==
  IF country \in Range(COUNTRY_FIRST_LOCALES) THEN "country-lang" ELSE "lang-country"

\* the two codes looked up each on its own
isLocaleSupported_eachCode(lang, country) ==
  /\ \E i \in 1..Len(SUPPORTED_LOCALES) : SUPPORTED_LOCALES[i].lang = lang
  /\ \E i \in 1..Len(SUPPORTED_LOCALES) : SUPPORTED_LOCALES[i].country = country

isLocaleSupported(lang, country) ==
  \E i \in 1..Len(SUPPORTED_LOCALES) :
    SUPPORTED_LOCALES[i].lang = lang /\ SUPPORTED_LOCALES[i].country = country

getAllLocales == SUPPORTED_LOCALES

(***************************************************************************)
(* scripts/language-mapping.js: the pure functions                         *)
(***************************************************************************)
\* the country-first branch left out: every path read as language first
startsWithCountry_never(first) == FALSE

\* line 32: COUNTRY_FIRST_LOCALES.includes(first)
startsWithCountry(first) == first \in Range(COUNTRY_FIRST_LOCALES)

\* parseLocale(path); null fields are the string "null"
parseLocale(path) ==
  LET segments == FilterNonEmpty(path) IN
  IF Len(segments) < 2
  THEN [order |-> "null", lang |-> "null", country |-> "null",
        remainder |-> path, localePrefix |-> <<"">>, isValid |-> FALSE]
  ELSE
    LET first == segments[1]
        second == segments[2]
        rest == SubSeq(segments, 3, Len(segments))
        \* `/${segments.slice(2).join('/')}`
        remainder == <<"">> \o (IF rest = <<>> THEN <<"">> ELSE rest)
    IN IF startsWithCountry(first)
       THEN [order |-> "country-lang", lang |-> second, country |-> first,
             remainder |-> remainder, localePrefix |-> <<"", first, second>>,
             isValid |-> isLocaleSupported(second, first)]
       ELSE [order |-> "lang-country", lang |-> first, country |-> second,
             remainder |-> remainder, localePrefix |-> <<"", first, second>>,
             isValid |-> isLocaleSupported(first, second)]

buildLocalePrefix(lang, country) ==
  IF getLocaleOrder(country) = "country-lang"
  THEN <<"", country, lang>> ELSE <<"", lang, country>>

localeToKey_langOnly(lang, country) == <<lang>>

\* `${lang}-${country}`
localeToKey(lang, country) == <<lang, country>>

\* const [lang, country] = localeKey.split('-')
keyToLocale(localeKey) ==
  [lang |-> localeKey[1],
   country |-> IF Len(localeKey) >= 2 THEN localeKey[2] ELSE "undefined"]

\* the parsed locale returned whether or not it is supported
getCurrentLocale_unchecked(pathname) ==
  LET parsed == parseLocale(pathname)
  IN [lang |-> parsed.lang, country |-> parsed.country,
      localeKey |-> localeToKey(parsed.lang, parsed.country),
      prefix |-> parsed.localePrefix]

\* getCurrentLocale(), pathname being window.location.pathname
getCurrentLocale(pathname) ==
  LET parsed == parseLocale(pathname)
  IN IF parsed.isValid
     THEN [lang |-> parsed.lang, country |-> parsed.country,
           localeKey |-> localeToKey(parsed.lang, parsed.country),
           prefix |-> parsed.localePrefix]
     ELSE [lang |-> DEFAULT_LOCALE.lang, country |-> DEFAULT_LOCALE.country,
           localeKey |-> localeToKey(DEFAULT_LOCALE.lang, DEFAULT_LOCALE.country),
           prefix |-> buildLocalePrefix(DEFAULT_LOCALE.lang, DEFAULT_LOCALE.country)]

(***************************************************************************)
(* What the two fetches of a load cycle can answer                         *)
(***************************************************************************)
\* the paths and locale keys the sheet and the fallback file speak of
PathAbout == <<"", "en", "uk", "about">>
PathUeberUns == <<"", "ch", "de", "ueber-uns">>
PathAPropos == <<"", "ch", "fr", "a-propos">>
PathFallback == <<"", "de", "ch", "wer-wir-sind">>
KeyEnUk == <<"en", "uk">>
KeyDeCh == <<"de", "ch">>
KeyFrCh == <<"fr", "ch">>

\* rows of the sheet: complete in camelCase, complete in lower case (same
\* source, another target), complete for another source locale, lacking
\* targetPath, and the JSON value null
RowCamel ==
  Obj([sourceLocale |-> Str(KeyEnUk), sourcePath |-> Str(PathAbout),
       targetLocale |-> Str(KeyDeCh), targetPath |-> Str(PathUeberUns)])
RowLower ==
  Obj([sourcelocale |-> Str(KeyEnUk), sourcepath |-> Str(PathAbout),
       targetlocale |-> Str(KeyFrCh), targetpath |-> Str(PathAPropos)])
RowNoTarget ==
  Obj([sourceLocale |-> Str(KeyEnUk), sourcePath |-> Str(PathAbout),
       targetLocale |-> Str(KeyDeCh)])
RowBack ==
  Obj([sourceLocale |-> Str(KeyDeCh), sourcePath |-> Str(PathUeberUns),
       targetLocale |-> Str(KeyEnUk), targetPath |-> Str(PathAbout)])
SheetRows == {RowCamel, RowLower, RowBack, RowNoTarget, Null}

DataArrays == UNION {[1..n -> SheetRows] : n \in 0..MaxRows}

\* what fetch() settles to: a rejection, a response with ok false, or one
\* with ok true
FetchOutcomes == {"networkError", "notOk", "ok"}

\* response.json() rejects with a SyntaxError
SyntaxError == [t |-> "syntaxError"]

\* what response.json() of /url-mappings.json settles to
SheetBodies ==
  {SyntaxError, Null, Obj(EmptyObject), Obj([data |-> Str(<<"none">>)])}
    \cup {Obj([data |-> Arr(rows)]) : rows \in DataArrays}

\* /config/url-mappings.json as the runbook documents it (a path maps to
\* the target path itself), and with entries shaped like the sheet's
FallbackDocumented ==
  Obj(KeyEnUk :> Obj(PathAbout :> Str(PathFallback)))
FallbackEntries ==
  Obj(KeyEnUk :> Obj(PathAbout :>
        Obj([targetLocale |-> Str(KeyDeCh), targetPath |-> Str(PathFallback)])))

\* what response.json() of /config/url-mappings.json settles to
FallbackBodies ==
  {SyntaxError, Null, Obj(EmptyObject), FallbackDocumented, FallbackEntries}

(***************************************************************************)
(* loadMappings: the body of a load cycle                                  *)
(***************************************************************************)
\* lines 116-119: the four fields of a row, in either casing
rowFields(row) ==
  [sourceLocale |-> Or(Get(row, "sourceLocale"), Get(row, "sourcelocale")),
   sourcePath |-> Or(Get(row, "sourcePath"), Get(row, "sourcepath")),
   targetLocale |-> Or(Get(row, "targetLocale"), Get(row, "targetlocale")),
   targetPath |-> Or(Get(row, "targetPath"), Get(row, "targetpath"))]

\* line 121
rowIsComplete(f) ==
  Truthy(f.sourceLocale) /\ Truthy(f.sourcePath)
    /\ Truthy(f.targetLocale) /\ Truthy(f.targetPath)

\* lines 122-128: mappings[sourceLocale][sourcePath] = {targetLocale, targetPath}
putMapping(mappings, f) ==
  LET key == f.sourceLocale.s
      inner == IF key \in DOMAIN mappings THEN mappings[key].props ELSE EmptyObject
      entry == Obj([targetLocale |-> f.targetLocale, targetPath |-> f.targetPath])
  IN (key :> Obj((f.sourcePath.s :> entry) @@ inner)) @@ mappings

\* lines 115-130: data.data.forEach(...); reading a field of a null row
\* throws and ends the loop
RECURSIVE forEachRow(_, _)
forEachRow(rows, mappings) ==
  IF rows = <<>> THEN [threw |-> FALSE, mappings |-> mappings]
  ELSE IF GetThrows(Head(rows)) THEN [threw |-> TRUE, mappings |-> mappings]
  ELSE LET f == rowFields(Head(rows))
       IN forEachRow(Tail(rows),
                     IF rowIsComplete(f) THEN putMapping(mappings, f) ELSE mappings)

\* lines 111-131: the sheet's body converted into mappings
sheetToMappings(body) ==
  IF body = SyntaxError \/ GetThrows(body)
  THEN [threw |-> TRUE, mappings |-> EmptyObject]
  ELSE LET data == Get(body, "data")
       IN IF Truthy(data) /\ data.t = "array"
          THEN forEachRow(data.items, EmptyObject)
          ELSE [threw |-> FALSE, mappings |-> EmptyObject]

\* the catch block left out: the error goes on
catchSheetError_rethrow(r) == r

\* lines 133-135: catch (error) { console.warn(...) }
catchSheetError(r) == [r EXCEPT !.threw = FALSE]

\* line 138: Object.keys(mappings).length === 0
needsFallback(mappings) == DOMAIN mappings = {}

\* lines 142-143: Object.assign(mappings, jsonMappings)
assignFallback(mappings, body) ==
  IF body = SyntaxError THEN [threw |-> TRUE, mappings |-> mappings]
  ELSE IF body.t = "object"
       THEN [threw |-> FALSE, mappings |-> body.props @@ mappings]
       ELSE [threw |-> FALSE, mappings |-> mappings]

catchFallbackError_rethrow(r) == r

\* lines 145-147: catch (error) { console.warn(...) }
catchFallbackError(r) == [r EXCEPT !.threw = FALSE]

(***************************************************************************)
(* State                                                                   *)
(***************************************************************************)
VARIABLES
  urlMappingsCache,    \* line 88: 0 is null, k is the mappings object of load k
  mappingsLoadPromise, \* line 89: 0 is null, k is the promise of load k
  loads,               \* the runs of the async body of lines 104-152
  nLoads,              \* how many of them were started
  callers,             \* direct callers of loadMappings
  mapCalls,            \* calls of mapUrlToLanguage
  alt,                 \* a call of getAlternates
  cleared,             \* clearMappingsCache was called and loadMappings not since
  parseCall,           \* a call of parseLocale, and of buildLocalePrefix on its result
  served,              \* the document /url-mappings.json holds, where it is fixed
  configCache,         \* language-switcher.js: let configCache = null
  decorateCalls,       \* calls of the language switcher's decorate
  switcherBlocks,      \* the language-switcher blocks of the page
  documentListeners,   \* the click and keydown listeners added to document
  tabs,                \* a tabs block: its rows, and its buttons and panels
  counter              \* an info-counter block, its observers and animations

\* the state of the language switcher, and of the other blocks
switcherState == <<configCache, decorateCalls, switcherBlocks, documentListeners>>
besideSwitcher == <<tabs, counter>>

\* the state of the blocks of the page
blockState == <<switcherState, besideSwitcher>>

vars == <<urlMappingsCache, mappingsLoadPromise, loads, nLoads, callers,
          mapCalls, alt, cleared, parseCall, served, blockState>>

\* the state that loadMappings, mapUrlToLanguage, getAlternates and
\* clearMappingsCache neither read nor write
elsewhere == <<parseCall, served, blockState>>

\* the state of scripts/language-mapping.js and of its callers
mappingState == <<urlMappingsCache, mappingsLoadPromise, loads, nLoads,
                  callers, mapCalls, alt, cleared, parseCall, served>>

Loads == 1..MaxLoads
Callers == 1..NumCallers

\* a load: where its async body stands, its local object `mappings`, and
\* for the record: whether the sheet body held a complete row; whether the
\* fallback file was not fetched ("none"), is being fetched ("fetching"),
\* gave nothing ("failed") or was assigned to mappings ("assigned"); and
\* whether the load was started after the last clearMappingsCache
IdleLoad ==
  [stage |-> "idle", mappings |-> EmptyObject, sheetUsable |-> FALSE,
   fallback |-> "none", current |-> FALSE]

Settled(k) == loads[k].stage \in {"resolved", "rejected"}
InFlight(k) ==
  loads[k].stage \in {"remoteFetch", "remoteJson", "fallbackFetch", "fallbackJson"}

\* the module-level state loadMappings reads and writes
Loader ==
  [cache |-> urlMappingsCache, promise |-> mappingsLoadPromise,
   loads |-> loads, n |-> nLoads]

\* lines 96-102: which of its three returns a call of loadMappings takes
loadDecision(cache, promise) ==
  IF cache # 0 THEN "cached"
  ELSE IF promise # 0 THEN "joined"
  ELSE "started"

\* lines 95-155, to the first await: the loader state a call leaves and the
\* load whose table the returned promise resolves to (0: the model's bound
\* on loads is reached)
loadMappings(l) ==
  LET d == loadDecision(l.cache, l.promise) IN
  IF d = "cached" THEN [loader |-> l, awaits |-> l.cache]
  ELSE IF d = "joined" THEN [loader |-> l, awaits |-> l.promise]
  ELSE IF l.n >= MaxLoads THEN [loader |-> l, awaits |-> 0]
  ELSE LET k == l.n + 1 IN
       [loader |-> [l EXCEPT !.n = k, !.promise = k,
                      !.loads[k] = [IdleLoad EXCEPT !.stage = "remoteFetch",
                                                    !.current = TRUE]],
        awaits |-> k]

SetLoader(l) ==
  /\ urlMappingsCache' = l.cache
  /\ mappingsLoadPromise' = l.promise
  /\ loads' = l.loads
  /\ nLoads' = l.n

(***************************************************************************)
(* The steps of a load cycle                                               *)
(***************************************************************************)
\* lines 150-151: urlMappingsCache = mappings; return mappings
Resolve(k, mappings, fallback) ==
  /\ urlMappingsCache' = k
  /\ loads' = [loads EXCEPT ![k].stage = "resolved", ![k].mappings = mappings,
                            ![k].fallback = fallback]

\* an exception leaving the async body rejects its promise
Reject(k) ==
  /\ loads' = [loads EXCEPT ![k].stage = "rejected"]
  /\ UNCHANGED urlMappingsCache

\* lines 137-151, entered with the mappings the sheet gave
AfterSheet(k, r, usable) ==
  IF r.threw THEN Reject(k)
  ELSE IF needsFallback(r.mappings)
  THEN /\ loads' = [loads EXCEPT ![k].stage = "fallbackFetch",
                                 ![k].mappings = r.mappings,
                                 ![k].sheetUsable = usable,
                                 ![k].fallback = "fetching"]
       /\ UNCHANGED urlMappingsCache
  ELSE /\ urlMappingsCache' = k
       /\ loads' = [loads EXCEPT ![k].stage = "resolved",
                                 ![k].mappings = r.mappings,
                                 ![k].sheetUsable = usable]

\* lines 148-151, entered with the merged mappings
AfterFallback(k, r, fallback) ==
  IF r.threw THEN Reject(k) ELSE Resolve(k, r.mappings, fallback)

\* whether a sheet body holds a row with the four fields
HasCompleteRow(body) ==
  /\ body.t = "object"
  /\ Get(body, "data").t = "array"
  /\ \E i \in 1..Len(Get(body, "data").items) :
       LET row == Get(body, "data").items[i]
       IN ~GetThrows(row) /\ rowIsComplete(rowFields(row))

\* line 109 settles: await fetch('/url-mappings.json')
SheetFetchSettles(k, outcome) ==
  /\ loads[k].stage = "remoteFetch"
  /\ IF outcome = "ok"
     THEN /\ loads' = [loads EXCEPT ![k].stage = "remoteJson"]
          /\ UNCHANGED urlMappingsCache
     ELSE AfterSheet(k,
            IF outcome = "networkError"
            THEN catchSheetError([threw |-> TRUE, mappings |-> EmptyObject])
            ELSE [threw |-> FALSE, mappings |-> EmptyObject],
            FALSE)
  /\ UNCHANGED <<mappingsLoadPromise, nLoads, callers, mapCalls, alt, cleared,
                 elsewhere>>

\* line 111 settles: await response.json(), then lines 113-151
SheetJsonSettles(k, body) ==
  /\ loads[k].stage = "remoteJson"
  /\ LET r == sheetToMappings(body)
     IN AfterSheet(k, IF r.threw THEN catchSheetError(r) ELSE r,
                   HasCompleteRow(body))
  /\ UNCHANGED <<mappingsLoadPromise, nLoads, callers, mapCalls, alt, cleared,
                 elsewhere>>

\* line 140 settles: await fetch('/config/url-mappings.json')
FallbackFetchSettles(k, outcome) ==
  /\ loads[k].stage = "fallbackFetch"
  /\ IF outcome = "ok"
     THEN /\ loads' = [loads EXCEPT ![k].stage = "fallbackJson"]
          /\ UNCHANGED urlMappingsCache
     ELSE AfterFallback(k,
            IF outcome = "networkError"
            THEN catchFallbackError([threw |-> TRUE, mappings |-> loads[k].mappings])
            ELSE [threw |-> FALSE, mappings |-> loads[k].mappings],
            "failed")
  /\ UNCHANGED <<mappingsLoadPromise, nLoads, callers, mapCalls, alt, cleared,
                 elsewhere>>

\* line 142 settles: await response.json(), then lines 143-151
FallbackJsonSettles(k, body) ==
  /\ loads[k].stage = "fallbackJson"
  /\ LET r == assignFallback(loads[k].mappings, body)
     IN AfterFallback(k, IF r.threw THEN catchFallbackError(r) ELSE r,
                      IF r.threw THEN "failed" ELSE "assigned")
  /\ UNCHANGED <<mappingsLoadPromise, nLoads, callers, mapCalls, alt, cleared,
                 elsewhere>>

(***************************************************************************)
(* Direct callers of loadMappings, and clearMappingsCache                  *)
(***************************************************************************)
IdleCaller == [pc |-> "idle", awaits |-> 0]

\* a caller calls loadMappings() and awaits what it returns
CallLoadMappings(c) ==
  /\ callers[c].pc # "awaiting"
  /\ LET r == loadMappings(Loader)
     IN /\ r.awaits # 0
        /\ SetLoader(r.loader)
        /\ callers' = [callers EXCEPT ![c] =
                         [pc |-> "awaiting", awaits |-> r.awaits]]
  /\ cleared' = FALSE
  /\ UNCHANGED <<mapCalls, alt, elsewhere>>

\* the promise a caller awaits has settled: the caller goes on with the
\* table (the mappings object of the load), or with the rejection
CallerResumes(c) ==
  /\ callers[c].pc = "awaiting"
  /\ Settled(callers[c].awaits)
  /\ callers' = [callers EXCEPT ![c].pc = loads[callers[c].awaits].stage]
  /\ UNCHANGED <<urlMappingsCache, mappingsLoadPromise, loads, nLoads,
                 mapCalls, alt, cleared,
                 elsewhere>>

\* lines 249-252
ClearMappingsCache ==
  /\ urlMappingsCache' = 0
  /\ mappingsLoadPromise' = 0
  /\ cleared' = TRUE
  /\ loads' = [k \in Loads |-> [loads[k] EXCEPT !.current = FALSE]]
  /\ UNCHANGED <<nLoads, callers, mapCalls, alt, elsewhere>>

(***************************************************************************)
(* mapUrlToLanguage                                                        *)
(***************************************************************************)
\* the current paths and the target locales of the modelled calls:
\* a mapped page, a locale root with and without the closing slash, a page
\* of a country-first locale, an unsupported pair, a short path
PathRoot == <<"", "en", "uk">>
PathRootSlash == <<"", "en", "uk", "">>
PathItUk == <<"", "it", "uk", "about">>
PathShort == <<"", "unknownpath">>
MapPaths == {PathAbout, PathRoot, PathRootSlash, PathUeberUns, PathItUk, PathShort}
MapTargets == {[lang |-> "de", country |-> "ch"], [lang |-> "en", country |-> "us"]}

MapCallIds == 1..NumMapCalls

\* a call: its arguments, the local currentLocale of line 165, which the
\* code after the await reads, the load it awaits and what it returned
IdleMapCall ==
  [pc |-> "idle", currentPath |-> <<"">>, targetLang |-> "", targetCountry |-> "",
   currentLocale |-> parseLocale(<<"">>), awaits |-> 0, result |-> Undefined]

\* `${targetPrefix}/`
homepage(lang, country) == buildLocalePrefix(lang, country) \o <<"">>

\* what `await loadMappings()` gives when the promise of load k has settled
awaitLoad(k) ==
  [threw |-> loads[k].stage = "rejected", mappings |-> loads[k].mappings]

\* lines 184-186: catch (error) { console.warn(...) }
catchLoadError(r) == [r EXCEPT !.threw = FALSE, !.mappings = EmptyObject]

\* line 180: mappings[currentLocaleKey] && mappings[currentLocaleKey][currentPath]
exactMapping(mappings, currentLocaleKey, currentPath) ==
  LET byLocale == IF currentLocaleKey \in DOMAIN mappings
                  THEN mappings[currentLocaleKey] ELSE Undefined
  IN IF Truthy(byLocale) THEN Get(byLocale, currentPath) ELSE byLocale

\* the mapping returned only if its targetLocale is the requested locale
returnsMapping_checkingTarget(mapping, targetLocaleKey) ==
  Truthy(mapping) /\ Get(mapping, "targetLocale") = Str(targetLocaleKey)

\* lines 180-183: whether the exact mapping is returned, compared with the
\* requested target or not
returnsMapping(mapping, targetLocaleKey) == Truthy(mapping)

\* the remainder never kept: every unmapped page goes to the homepage
keepsRemainder_never(remainder) == FALSE

\* line 189: currentLocale.remainder && currentLocale.remainder !== '/'
keepsRemainder(remainder) == remainder # <<"">> /\ remainder # <<"", "">>

\* lines 176-195, from the settling of `await loadMappings()` on, with the
\* local currentLocale of line 165
mapAfterLoad(currentPath, currentLocale, targetLang, targetCountry, loaded) ==
  LET targetLocaleKey == localeToKey(targetLang, targetCountry)
      targetPrefix == buildLocalePrefix(targetLang, targetCountry)
      currentLocaleKey == localeToKey(currentLocale.lang, currentLocale.country)
      r == IF loaded.threw THEN catchLoadError(loaded) ELSE loaded
      mapping == exactMapping(r.mappings, currentLocaleKey, currentPath)
  IN IF r.threw THEN [threw |-> TRUE, value |-> Undefined]
     ELSE IF ~loaded.threw /\ returnsMapping(mapping, targetLocaleKey)
     THEN [threw |-> FALSE, value |-> Get(mapping, "targetPath")]
     ELSE IF keepsRemainder(currentLocale.remainder)
     THEN [threw |-> FALSE, value |-> Str(Concat(targetPrefix, currentLocale.remainder))]
     ELSE [threw |-> FALSE, value |-> Str(homepage(targetLang, targetCountry))]

\* the validity of the current path not looked at before the lookup
returnsHomepageAtOnce_never(currentLocale) == FALSE

\* line 170: whether mapUrlToLanguage returns before any mapping lookup
returnsHomepageAtOnce(currentLocale) == ~currentLocale.isValid

\* lines 164-177, to the first await: the loader state the call leaves, the
\* load it awaits (0: none) and the value returned at once
mapUrlToLanguage(currentPath, targetLang, targetCountry, l) ==
  LET currentLocale == parseLocale(currentPath) IN
  IF returnsHomepageAtOnce(currentLocale)
  THEN [loader |-> l, awaits |-> 0, called |-> FALSE,
        currentLocale |-> currentLocale,
        value |-> Str(homepage(targetLang, targetCountry))]
  ELSE LET r == loadMappings(l)
       IN [loader |-> r.loader, awaits |-> r.awaits, called |-> TRUE,
           currentLocale |-> currentLocale,
           value |-> Undefined]

\* call m of mapUrlToLanguage, to its return or its first await
CallMapUrlToLanguage(m, path, target) ==
  /\ mapCalls[m].pc = "idle"
  /\ LET r == mapUrlToLanguage(path, target.lang, target.country, Loader)
     IN /\ r.called => r.awaits # 0
        /\ SetLoader(r.loader)
        /\ cleared' = IF r.called THEN FALSE ELSE cleared
        /\ mapCalls' = [mapCalls EXCEPT ![m] =
             [pc |-> IF r.called THEN "awaiting" ELSE "returned",
              currentPath |-> path, targetLang |-> target.lang,
              targetCountry |-> target.country,
              currentLocale |-> r.currentLocale,
              awaits |-> r.awaits, result |-> r.value]]
  /\ UNCHANGED <<callers, alt, elsewhere>>

\* the awaited load has settled: lines 177-195
MapCallResumes(m) ==
  /\ mapCalls[m].pc = "awaiting"
  /\ Settled(mapCalls[m].awaits)
  /\ LET c == mapCalls[m]
         r == mapAfterLoad(c.currentPath, c.currentLocale, c.targetLang,
                           c.targetCountry, awaitLoad(c.awaits))
     IN mapCalls' = [mapCalls EXCEPT ![m].pc = IF r.threw THEN "threw" ELSE "returned",
                                     ![m].result = r.value]
  /\ UNCHANGED <<urlMappingsCache, mappingsLoadPromise, loads, nLoads,
                 callers, alt, cleared,
                 elsewhere>>

(***************************************************************************)
(* getAlternates                                                           *)
(***************************************************************************)
LocaleIds == 1..Len(getAllLocales)

IdleAlt == [pc |-> "idle", currentPath |-> <<"">>, subs |-> <<>>, alternates |-> EmptyObject]

\* lines 206-210, to the await of each callback of allLocales.map: the
\* callbacks run in the order of the locales, each calling mapUrlToLanguage
\* on the loader state the one before left; ok is false when the model's
\* bound on loads is reached
RECURSIVE fanOut(_, _, _, _)
fanOut(i, currentPath, l, subs) ==
  IF i > Len(getAllLocales) THEN [loader |-> l, subs |-> subs, ok |-> TRUE, called |-> FALSE]
  ELSE LET locale == getAllLocales[i]
           r == mapUrlToLanguage(currentPath, locale.lang, locale.country, l)
       IN IF r.called /\ r.awaits = 0
          THEN [loader |-> l, subs |-> subs, ok |-> FALSE, called |-> FALSE]
          ELSE LET rest == fanOut(i + 1, currentPath, r.loader,
                             Append(subs, [pc |-> "awaiting",
                                           localeKey |-> localeToKey(locale.lang, locale.country),
                                           currentLocale |-> r.currentLocale,
                                           awaits |-> r.awaits, value |-> r.value]))
               IN [rest EXCEPT !.called = r.called \/ rest.called]

\* a locale whose URL is not a truthy value left out of the map
assignAlternate_skippingFalsy(alternates, localeKey, locale, r) ==
  IF ~r.threw /\ ~Truthy(r.value) THEN alternates
  ELSE (localeKey :> IF r.threw THEN Str(homepage(locale.lang, locale.country))
                     ELSE r.value) @@ alternates

\* lines 209-214: alternates[localeKey] is the value mapUrlToLanguage
\* resolved to, or the homepage of the locale if it rejected
assignAlternate(alternates, localeKey, locale, r) ==
  (localeKey :> IF r.threw THEN Str(homepage(locale.lang, locale.country))
                ELSE r.value) @@ alternates

\* a call of getAlternates, to the await of Promise.all
CallGetAlternates(path) ==
  /\ alt.pc # "awaiting"
  /\ LET r == fanOut(1, path, Loader, <<>>)
     IN /\ r.ok
        /\ SetLoader(r.loader)
        /\ cleared' = IF r.called THEN FALSE ELSE cleared
        /\ alt' = [pc |-> "awaiting", currentPath |-> path, subs |-> r.subs,
                   alternates |-> EmptyObject]
  /\ UNCHANGED <<callers, mapCalls, elsewhere>>

\* what the mapUrlToLanguage call of callback i resolves or rejects with
alternateResult(i) ==
  LET sub == alt.subs[i]
      locale == getAllLocales[i]
  IN IF sub.awaits = 0 THEN [threw |-> FALSE, value |-> sub.value]
     ELSE mapAfterLoad(alt.currentPath, sub.currentLocale, locale.lang,
                       locale.country, awaitLoad(sub.awaits))

\* the callback of locale i goes on after its await: line 210 or 213
AlternateResumes(i) ==
  /\ alt.pc = "awaiting"
  /\ alt.subs[i].pc = "awaiting"
  /\ alt.subs[i].awaits # 0 => Settled(alt.subs[i].awaits)
  /\ UNCHANGED <<urlMappingsCache, mappingsLoadPromise, loads, nLoads,
                 callers, mapCalls, cleared,
                 elsewhere>>
  /\ \E r \in {alternateResult(i)} :
       alt' = [alt EXCEPT !.subs[i].pc = "done",
                          !.alternates = assignAlternate(alt.alternates,
                                           alt.subs[i].localeKey,
                                           getAllLocales[i], r)]

\* Promise.all has resolved: line 218
GetAlternatesReturns ==
  /\ alt.pc = "awaiting"
  /\ \A i \in LocaleIds : alt.subs[i].pc = "done"
  /\ alt' = [alt EXCEPT !.pc = "returned"]
  /\ UNCHANGED <<urlMappingsCache, mappingsLoadPromise, loads, nLoads,
                 callers, mapCalls, cleared,
                 elsewhere>>

(***************************************************************************)
(* parseLocale and buildLocalePrefix as calls                              *)
(***************************************************************************)
\* the pieces of the parsed paths: the empty piece (a leading, closing or
\* doubled '/'), the country-first country, languages and countries of the
\* table, and a page name
ParsePieces == {"", "ch", "de", "en", "uk", "it", "about"}

\* the paths parsed: path.split('/') has at least one piece
ParsePaths == UNION {[1..n -> ParsePieces] : n \in 1..MaxPieces}

IdleParse(path) ==
  [pc |-> "idle", path |-> path, parsed |-> Undefined, prefix |-> Undefined,
   current |-> Undefined]

\* parseLocale(path) is called and returns
CallParseLocale ==
  /\ parseCall.pc = "idle"
  /\ parseCall' = [parseCall EXCEPT !.pc = "parsed",
                                    !.parsed = parseLocale(parseCall.path)]
  /\ UNCHANGED <<urlMappingsCache, mappingsLoadPromise, loads, nLoads,
                 callers, mapCalls, alt, cleared, served, blockState>>

\* buildLocalePrefix(parsed.lang, parsed.country) is called on what
\* parseLocale returned
CallBuildLocalePrefix ==
  /\ parseCall.pc = "parsed"
  /\ parseCall' = [parseCall EXCEPT !.pc = "built",
                      !.prefix = Str(buildLocalePrefix(parseCall.parsed.lang,
                                                       parseCall.parsed.country))]
  /\ UNCHANGED <<urlMappingsCache, mappingsLoadPromise, loads, nLoads,
                 callers, mapCalls, alt, cleared, served, blockState>>

\* window.location.pathname begins with '/'
Pathnames == {path \in ParsePaths : path[1] = "" /\ Len(path) >= 2}

\* getCurrentLocale() is called on the page at parseCall.path and returns;
\* line 222 is its call of parseLocale
CallGetCurrentLocale ==
  /\ parseCall.pc = "idle"
  /\ parseCall.path \in Pathnames
  /\ parseCall' = [parseCall EXCEPT !.pc = "located",
                                    !.parsed = parseLocale(parseCall.path),
                                    !.current = getCurrentLocale(parseCall.path)]
  /\ UNCHANGED <<urlMappingsCache, mappingsLoadPromise, loads, nLoads,
                 callers, mapCalls, alt, cleared, served, blockState>>

(***************************************************************************)
(* blocks/language-switcher/language-switcher.js: the configuration        *)
(***************************************************************************)
\* the language-switcher blocks of the page and their data attributes; a
\* string of locale keys is the list of the keys between its commas
SwitcherBlocks == {1, 2}

SwitcherDataset(b) ==
  IF b = 1 THEN EmptyObject
  ELSE [displayMode |-> Str(<<"compact">>),
        showCountryFlags |-> Str(<<"false">>),
        groupByCountry |-> Str(<<"false">>),
        supportedLocales |-> Str(<<KeyDeCh, KeyFrCh>>),
        fallbackLocale |-> Str(KeyDeCh),
        preservePath |-> Str(<<"false">>),
        autoDetect |-> Str(<<"false">>),
        customLabel |-> Str(<<"Sprache">>)]

\* the countries of /blocks/language-switcher/language-switcher.json, in
\* the order of their keys
CountryOrder == <<"uk", "ch">>

RuntimeCountries ==
  Obj([uk |-> Obj([name |-> Str(<<"United Kingdom">>),
                   languages |-> Arr(<<Obj([code |-> Str(<<"en">>)])>>)]),
       ch |-> Obj([name |-> Str(<<"Switzerland">>),
                   languages |-> Arr(<<Obj([code |-> Str(<<"de">>),
                                            urlPath |-> Str(<<"", "ch", "de", "">>)]),
                                       Obj([code |-> Str(<<"fr">>)])>>)])])

\* a runtime configuration that sets what the block sets too
RuntimeFull ==
  Obj([countries |-> RuntimeCountries,
       display |-> Obj([showCountryFlags |-> Bool(TRUE),
                        groupByCountry |-> Bool(TRUE),
                        theme |-> Str(<<"dark">>)]),
       behavior |-> Obj([preservePath |-> Bool(TRUE),
                         autoDetect |-> Obj([enabled |-> Bool(TRUE),
                                             storage |-> Str(<<"local">>)])]),
       ui |-> Obj([labels |-> Obj([selectLanguage |-> Str(<<"Language">>),
                                   availableOptions |-> Str(<<"Options">>)])]),
       supportedLocales |-> Arr(<<Str(KeyEnUk)>>),
       fallbackLocale |-> Str(KeyEnUk)])

\* what response.json() of the runtime configuration can give
RuntimeBodies == {SyntaxError, Null, Obj(EmptyObject), RuntimeFull}

\* block.dataset[name] !== 'false'
NotFalse(dataset, name) ==
  Bool(Get(Obj(dataset), name) # Str(<<"false">>))

\* block.dataset.supportedLocales?.split(',')
SplitLocales(v) ==
  IF GetThrows(v) THEN Undefined
  ELSE Arr([i \in 1..Len(v.s) |-> Str(v.s[i])])

\* const blockConfig = { ... }
blockConfig(dataset) ==
  [displayMode |-> Or(Get(Obj(dataset), "displayMode"), Str(<<"dropdown">>)),
   showCountryFlags |-> NotFalse(dataset, "showCountryFlags"),
   groupByCountry |-> NotFalse(dataset, "groupByCountry"),
   supportedLocales |-> Or(SplitLocales(Get(Obj(dataset), "supportedLocales")),
                           Arr(<<Str(KeyEnUk), Str(KeyDeCh), Str(KeyFrCh)>>)),
   fallbackLocale |-> Or(Get(Obj(dataset), "fallbackLocale"), Str(KeyEnUk)),
   preservePath |-> NotFalse(dataset, "preservePath"),
   autoDetect |-> NotFalse(dataset, "autoDetect"),
   customLabel |-> Or(Get(Obj(dataset), "customLabel"),
                      Str(<<"Select language and country">>))]

\* configCache = { ...runtimeConfig, display: ..., ... }; runtimeConfig is
\* an object
mergeConfig(runtimeConfig, bc) ==
  LET display == Get(runtimeConfig, "display")
      behavior == Get(runtimeConfig, "behavior")
      ui == Get(runtimeConfig, "ui")
  IN Obj([display |-> Obj([showCountryFlags |-> bc.showCountryFlags,
                           groupByCountry |-> bc.groupByCountry,
                           compactMode |-> Bool(bc.displayMode = Str(<<"compact">>))]
                          @@ Spread(display)),
          behavior |-> Obj([preservePath |-> bc.preservePath,
                            autoDetect |-> Obj([enabled |-> bc.autoDetect]
                                               @@ Spread(GetOptional(behavior, "autoDetect")))]
                           @@ Spread(behavior)),
          ui |-> Obj([labels |-> Obj([selectLanguage |-> bc.customLabel]
                                     @@ Spread(GetOptional(ui, "labels")))]
                     @@ Spread(ui)),
          supportedLocales |-> bc.supportedLocales,
          fallbackLocale |-> bc.fallbackLocale]
         @@ Spread(runtimeConfig))

(***************************************************************************)
(* language-switcher.js: decorate                                          *)
(***************************************************************************)
DecorateIds == 1..NumDecorates

\* window.location.pathname of the page
SwitcherPathname == PathAbout

\* Object.entries(config.countries), the keys in their order
CountryEntries(config) ==
  LET countries == Get(config, "countries")
  IN SelectSeq(CountryOrder, LAMBDA code : code \in DOMAIN Spread(countries))

\* the languages of a country: country.languages, or none
LanguagesOf(config, countryCode) ==
  LET languages == Get(Get(Get(config, "countries"), countryCode), "languages")
  IN IF languages.t = "array" THEN languages.items ELSE <<>>

\* lines 399-424: the option of one language of a country; href is
\* alternates[localeKey] || locale.urlPath || `/${lang}/${country}/`
localeOption(countryCode, language, currentLocaleInfo, alternates) ==
  LET lang == Get(language, "code").s[1]
      localeKey == <<lang, countryCode>>
      isCurrent == lang = currentLocaleInfo.lang /\ countryCode = currentLocaleInfo.country
      fallbackUrl == Or(Get(language, "urlPath"), Str(<<"", lang, countryCode, "">>))
  IN [kind |-> "option", key |-> localeKey, current |-> isCurrent,
      href |-> IF isCurrent THEN Null
               ELSE Or(Get(Obj(alternates), localeKey), fallbackUrl)]

\* the options of the languages of one country, in their order
countryOptions(config, countryCode, currentLocaleInfo, alternates) ==
  LET languages == LanguagesOf(config, countryCode)
  IN [i \in 1..Len(languages) |->
        localeOption(countryCode, languages[i], currentLocaleInfo, alternates)]

\* lines 399-428: the children of languageList; a country with more than
\* one language gets a header when the options are grouped
RECURSIVE languageList(_, _, _, _)
languageList(config, codes, currentLocaleInfo, alternates) ==
  IF codes = <<>> \/ ~Truthy(Get(config, "countries")) THEN <<>>
  ELSE LET countryCode == Head(codes)
           grouped == Truthy(GetOptional(Get(config, "display"), "groupByCountry"))
           header == IF grouped /\ Len(LanguagesOf(config, countryCode)) > 1
                     THEN <<[kind |-> "header", key |-> <<countryCode>>,
                             current |-> FALSE, href |-> Null]>>
                     ELSE <<>>
       IN header \o countryOptions(config, countryCode, currentLocaleInfo, alternates)
            \o languageList(config, Tail(codes), currentLocaleInfo, alternates)

\* what getAlternates(window.location.pathname) can resolve to
AlternatesResults ==
  {EmptyObject, (KeyDeCh :> Str(PathUeberUns)) @@ (KeyEnUk :> Str(PathAbout))}

IdleDecorate ==
  [pc |-> "idle", block |-> 0, config |-> Undefined, placeholders |-> "none",
   list |-> <<>>, ariaExpanded |-> "none", open |-> FALSE]

IdleSwitcherBlock == [decorated |-> FALSE, content |-> 0, builds |-> 0]

\* decorate(block) is called: line 333, and lines 139-147 of loadConfig to
\* its first await (the cache is returned, or the runtime file is fetched)
CallDecorate(d, b) ==
  /\ decorateCalls[d].pc = "idle"
  /\ decorateCalls' =
       [decorateCalls EXCEPT ![d] =
          IF switcherBlocks[b].decorated
          THEN [@ EXCEPT !.pc = "returned", !.block = b]
          ELSE IF Truthy(configCache)
          THEN [@ EXCEPT !.pc = "config", !.block = b, !.config = configCache]
          ELSE [@ EXCEPT !.pc = "configFetch", !.block = b]]
  /\ UNCHANGED <<configCache, switcherBlocks, documentListeners, mappingState,
                 besideSwitcher>>

\* lines 156-185 of loadConfig once runtimeConfig is known: reading a
\* property of null throws, and the call of decorate rejects with it
finishLoadConfig(d, runtimeConfig) ==
  IF GetThrows(runtimeConfig)
  THEN /\ decorateCalls' = [decorateCalls EXCEPT ![d].pc = "rejected"]
       /\ UNCHANGED configCache
  ELSE LET config == mergeConfig(runtimeConfig,
                                 blockConfig(SwitcherDataset(decorateCalls[d].block)))
       IN /\ configCache' = config
          /\ decorateCalls' = [decorateCalls EXCEPT ![d].pc = "config",
                                                     ![d].config = config]

\* the fetch of the runtime file settles: lines 147-154
ConfigFetchSettles(d, outcome) ==
  /\ decorateCalls[d].pc = "configFetch"
  /\ IF outcome = "ok"
     THEN /\ decorateCalls' = [decorateCalls EXCEPT ![d].pc = "configJson"]
          /\ UNCHANGED configCache
     ELSE finishLoadConfig(d, Obj(EmptyObject))
  /\ UNCHANGED <<switcherBlocks, documentListeners, mappingState,
                 besideSwitcher>>

\* response.json() of the runtime file settles: lines 149-154
ConfigJsonSettles(d, body) ==
  /\ decorateCalls[d].pc = "configJson"
  /\ finishLoadConfig(d, IF body = SyntaxError THEN Obj(EmptyObject) ELSE body)
  /\ UNCHANGED <<switcherBlocks, documentListeners, mappingState,
                 besideSwitcher>>

\* decorate goes on after await loadConfig(block): lines 339-346, to the
\* await of fetchPlaceholders()
DecorateGotConfig(d) ==
  /\ decorateCalls[d].pc = "config"
  /\ decorateCalls' = [decorateCalls EXCEPT ![d].pc = "placeholders"]
  /\ UNCHANGED <<configCache, switcherBlocks, documentListeners, mappingState,
                 besideSwitcher>>

\* fetchPlaceholders() settles: lines 346-432, to the await of
\* getAlternates; the button is created with aria-expanded 'false'
PlaceholdersSettle(d, outcome) ==
  /\ decorateCalls[d].pc = "placeholders"
  /\ decorateCalls' = [decorateCalls EXCEPT ![d].pc = "alternates",
                                             ![d].placeholders = outcome,
                                             ![d].ariaExpanded = "false"]
  /\ UNCHANGED <<configCache, switcherBlocks, documentListeners, mappingState,
                 besideSwitcher>>

\* getAlternates settles (a rejection is caught: alternates stays {}):
\* lines 432-483, the list, the three listeners, the block's new content
\* and its decorated mark
AlternatesSettle(d, alternates) ==
  /\ decorateCalls[d].pc = "alternates"
  /\ LET c == decorateCalls[d]
         b == c.block
     IN /\ decorateCalls' =
             [decorateCalls EXCEPT
                ![d].pc = "done",
                ![d].list = languageList(c.config, CountryEntries(c.config),
                                         getCurrentLocale(SwitcherPathname),
                                         alternates)]
        /\ documentListeners' = Append(documentListeners, d)
        /\ switcherBlocks' = [switcherBlocks EXCEPT ![b].decorated = TRUE,
                                                     ![b].content = d,
                                                     ![b].builds = @ + 1]
  /\ UNCHANGED <<configCache, mappingState, besideSwitcher>>

\* the class toggled, the attribute left as it is
toggleMenu_classOnly(c) == [c EXCEPT !.open = ~c.open]

\* lines 453-457: the click listener of the button
toggleMenu(c) ==
  LET isExpanded == c.ariaExpanded = "true"
  IN [c EXCEPT !.ariaExpanded = IF isExpanded THEN "false" ELSE "true",
               !.open = ~c.open]

\* lines 462-463 and 470-471
closeMenu(c) == [c EXCEPT !.ariaExpanded = "false", !.open = FALSE]

\* the containers that are in the document
Attached == {d \in DecorateIds :
               decorateCalls[d].pc = "done"
                 /\ switcherBlocks[decorateCalls[d].block].content = d}

\* a click on the button of container d: its click listener, then the
\* click listeners of document (lines 460-465), which close every container
\* that does not contain the button
ClickButton(d) ==
  /\ d \in Attached
  /\ decorateCalls' =
       [e \in DecorateIds |->
          IF e = d THEN toggleMenu(decorateCalls[e])
          ELSE IF e \in Range(documentListeners) THEN closeMenu(decorateCalls[e])
          ELSE decorateCalls[e]]
  /\ UNCHANGED <<configCache, switcherBlocks, documentListeners, mappingState,
                 besideSwitcher>>

\* a click elsewhere: in the list of container inside, or outside every
\* container (inside = 0)
ClickDocument(inside) ==
  /\ documentListeners # <<>>
  /\ inside \in Attached \cup {0}
  /\ decorateCalls' =
       [e \in DecorateIds |->
          IF e # inside /\ e \in Range(documentListeners)
          THEN closeMenu(decorateCalls[e])
          ELSE decorateCalls[e]]
  /\ UNCHANGED <<configCache, switcherBlocks, documentListeners, mappingState,
                 besideSwitcher>>

Keys == {"Escape", "Tab"}

\* a key is pressed: the keydown listeners of document, lines 468-474
Keydown(key) ==
  /\ documentListeners # <<>>
  /\ decorateCalls' =
       [e \in DecorateIds |->
          IF e \in Range(documentListeners) /\ key = "Escape" /\ decorateCalls[e].open
          THEN closeMenu(decorateCalls[e])
          ELSE decorateCalls[e]]
  /\ UNCHANGED <<configCache, switcherBlocks, documentListeners, mappingState,
                 besideSwitcher>>

(***************************************************************************)
(* blocks/tabs/tabs.js, and the variant of the decorator that extracts the *)
(* tabs while it creates them                                              *)
(***************************************************************************)
\* a row of the block by its cells: a title cell and a content cell, a
\* third cell after them, a title cell only, or no cell
RowKinds == {"both", "three", "titleOnly", "none"}

TabBlocks == UNION {[1..n -> RowKinds] : n \in 0..MaxTabRows}

\* cells.length >= 2, so that cells[0] and cells[1] are elements
HasBothCells(row) == row \in {"both", "three"}

\* lines 15-42 of tabs.js
extractTabsData(rows) == SelectSeq(rows, HasBothCells)

\* lines 96-131: the button and the panel of one tab
newTab(isActive) ==
  [active |-> isActive,
   selected |-> IF isActive THEN "true" ELSE "false",
   tabIndex |-> IF isActive THEN 0 ELSE -1,
   hidden |-> ~isActive,
   panelActive |-> isActive]

\* lines 91-141 of tabs.js: isActive is index === 0 among the extracted tabs
createTabs(tabsData) == [i \in 1..Len(tabsData) |-> newTab(i = 1)]

\* lines 47-104 of the variant: the rows are mapped with their own index,
\* isActive is index === 0 among the rows, and the rows without both cells
\* give null, which filter(Boolean) drops
createTabsOfRows(rows) ==
  LET indexes == SelectSeq([i \in 1..Len(rows) |-> i],
                           LAMBDA i : HasBothCells(rows[i]))
  IN [j \in 1..Len(indexes) |-> newTab(indexes[j] = 1)]

IdleTabs ==
  [pc |-> "idle", rows |-> <<>>, items |-> <<>>, focus |-> 0, threw |-> FALSE]

\* decorate(block) of tabs.js; the position of the indicator is layout
DecorateTabs(rows) ==
  /\ tabs.pc = "idle"
  /\ LET tabsData == extractTabsData(rows)
     IN tabs' = IF Len(tabsData) = 0
                THEN [tabs EXCEPT !.pc = "noTabs", !.rows = rows]
                ELSE [tabs EXCEPT !.pc = "decorated", !.rows = rows,
                                  !.items = createTabs(tabsData)]
  /\ UNCHANGED <<mappingState, switcherState, counter>>

\* decorate(block) of the variant
DecorateTabsOfRows(rows) ==
  /\ tabs.pc = "idle"
  /\ tabs' = [tabs EXCEPT !.pc = "decorated", !.rows = rows,
                          !.items = createTabsOfRows(rows)]
  /\ UNCHANGED <<mappingState, switcherState, counter>>

\* tabButtonsWrapper.querySelector('.tabs-tab-button.active'): the first
\* active button, 0 for null
activeButton(items) ==
  IF \E i \in 1..Len(items) : items[i].active
  THEN CHOOSE i \in 1..Len(items) :
         items[i].active /\ \A j \in 1..(i - 1) : ~items[j].active
  ELSE 0

\* switchTab(fromButton, toButton), lines 160-183, statement by statement
switchTab(items, from, to) ==
  LET offButton == [items EXCEPT ![from].selected = "false",
                                 ![from].active = FALSE,
                                 ![from].tabIndex = -1]
      onButton == [offButton EXCEPT ![to].selected = "true",
                                    ![to].active = TRUE,
                                    ![to].tabIndex = 0]
      offPanel == [onButton EXCEPT ![from].hidden = TRUE,
                                   ![from].panelActive = FALSE]
  IN [offPanel EXCEPT ![to].hidden = FALSE, ![to].panelActive = TRUE]

\* a click on button i, lines 187-192; with no active button
\* fromButton.getAttribute throws a TypeError
ClickTab(i) ==
  /\ tabs.pc = "decorated"
  /\ i \in 1..Len(tabs.items)
  /\ LET currentActiveButton == activeButton(tabs.items)
     IN tabs' = IF currentActiveButton = i THEN tabs
                ELSE IF currentActiveButton = 0 THEN [tabs EXCEPT !.threw = TRUE]
                ELSE [tabs EXCEPT !.items = switchTab(@, currentActiveButton, i),
                                  !.focus = i]
  /\ UNCHANGED <<mappingState, switcherState, counter>>

TabKeys == {"ArrowDown", "ArrowRight", "ArrowUp", "ArrowLeft", "Home", "End",
            "Enter"}

\* the button the key moves to from button i of n, 0 for the keys of the
\* default branch
keyTarget(key, i, n) ==
  CASE key \in {"ArrowDown", "ArrowRight"} -> (i % n) + 1
    [] key \in {"ArrowUp", "ArrowLeft"} -> ((i - 2 + n) % n) + 1
    [] key = "Home" -> 1
    [] key = "End" -> n
    [] OTHER -> 0

\* a keydown event whose target is button i, lines 196-234: the tab is
\* switched from the target of the event
KeydownTab(i, key) ==
  /\ tabs.pc = "decorated"
  /\ i \in 1..Len(tabs.items)
  /\ LET to == keyTarget(key, i, Len(tabs.items))
     IN tabs' = IF to = 0 THEN tabs
                ELSE [tabs EXCEPT !.items = switchTab(@, i, to), !.focus = to]
  /\ UNCHANGED <<mappingState, switcherState, counter>>

(***************************************************************************)
(* blocks/info-counter/info-counter.js                                     *)
(***************************************************************************)
\* ANIMATION_CONFIG.DURATION, in milliseconds
DURATION == 10000

\* the clock is read in steps of this many milliseconds
TimeGrain == 100

\* how far the clock moves between two events
TimeSteps == {2500, 5000}

\* A number is written by its decimal digits, the first not 0 unless it is
\* the only one: 905 is <<9, 0, 5>>.
Ten(exponent) == <<1>> \o [i \in 1..exponent |-> 0]

\* Number.prototype.toString writes a number of more digits than this with
\* an exponent
MaxPlainDigits == 21

\* the numbers the block is authored with: 0, 7, 40, 905 and 10^21
CounterTargets == {<<0>>, <<7>>, <<4, 0>>, <<9, 0, 5>>, Ten(MaxPlainDigits)}

DigitChars == <<"0", "1", "2", "3", "4", "5", "6", "7", "8", "9">>

\* the decimal digits of n as characters
Decimal(n) == [i \in 1..Len(n) |-> DigitChars[n[i] + 1]]

\* the digits of n without the zeros at its end
RECURSIVE Significant(_)
Significant(n) ==
  IF Len(n) > 1 /\ n[Len(n)] = 0 THEN Significant(SubSeq(n, 1, Len(n) - 1)) ELSE n

\* the digits of a natural number below 100
TwoDigits(k) == IF k < 10 THEN <<k>> ELSE <<k \div 10, k % 10>>

\* lines 52 and 272, targetNumber.toString(): the characters, left to
\* right; a number of more than 21 digits is written as d.ddde+xx
numberString(n) ==
  IF Len(n) <= MaxPlainDigits THEN Decimal(n)
  ELSE LET significant == Significant(n)
       IN <<DigitChars[n[1] + 1]>>
            \o (IF Len(significant) > 1
                THEN <<".">> \o Decimal(Tail(significant)) ELSE <<>>)
            \o <<"e", "+">> \o Decimal(TwoDigits(Len(n) - 1))

NaN == [t |-> "NaN"]
Num(n) == [t |-> "number", n |-> n]

IsDigitChar(char) == \E d \in 1..Len(DigitChars) : DigitChars[d] = char

DigitOf(char) == (CHOOSE d \in 1..Len(DigitChars) : DigitChars[d] = char) - 1

\* parseInt(chars, 10) of characters that hold no sign and no blank: the
\* number written by the digits before the first other character, <<>> for
\* NaN when there is none
RECURSIVE parseInt(_)
parseInt(chars) ==
  IF chars = <<>> \/ ~IsDigitChar(Head(chars)) THEN <<>>
  ELSE <<DigitOf(Head(chars))>> \o parseInt(Tail(chars))

\* line 72: parseInt(numberString[index] || '0', 10), index from 0
targetDigit(string, index) ==
  LET char == IF index + 1 <= Len(string) THEN string[index + 1] ELSE "0"
  IN IF IsDigitChar(char) THEN Num(DigitOf(char)) ELSE NaN

\* what assigning the number v to textContent writes
textContent(v) == IF v.t = "NaN" THEN "NaN" ELSE DigitChars[v.n + 1]

Observers == 1..MaxObservers

\* the entries one call of an observer's callback can be given
EntryLists == UNION {[1..n -> BOOLEAN] : n \in 1..2}

IdleCounter ==
  [pc |-> "idle", target |-> <<0>>, dataset |-> <<>>, targetNumber |-> <<>>,
   display |-> <<>>, ends |-> <<>>, animated |-> FALSE,
   observers |-> [o \in Observers |-> "none"], started |-> 0,
   sinceStart |-> 0, stage |-> <<>>, elapsed |-> <<>>]

\* lines 91-127: initializeCounterAnimation(block) reads the target number
\* from the dataset and creates an observer of the block, unless the number
\* is NaN or the block is marked as animated.  Every observer of a block
\* holds the same targetNumber, the dataset being written once.
initializeCounterAnimation(c) ==
  IF parseInt(c.dataset) = <<>> THEN c
  ELSE IF c.animated \/ \A o \in Observers : c.observers[o] # "none" THEN c
  ELSE LET o == CHOOSE o \in Observers :
                  c.observers[o] = "none"
                    /\ \A earlier \in 1..(o - 1) : c.observers[earlier] # "none"
       IN [c EXCEPT !.observers[o] = "observing",
                    !.targetNumber = parseInt(c.dataset)]

\* decorate(block) on a block authored with the number target: lines
\* 161-314, one digit element showing '0' for every character of
\* targetNumber.toString() (lines 134-155), the number stored in the dataset
\* (line 277) and the first call of initializeCounterAnimation
DecorateCounter(target) ==
  /\ counter.pc = "idle"
  /\ counter' = initializeCounterAnimation(
                  [counter EXCEPT !.pc = "decorated",
                                  !.target = target,
                                  !.dataset = numberString(target),
                                  !.display = [i \in 1..Len(numberString(target)) |-> "0"]])
  /\ UNCHANGED <<mappingState, switcherState, tabs>>

\* a further call of initializeCounterAnimation on the decorated block
CallInitializeCounterAnimation ==
  /\ counter.pc = "decorated"
  /\ \E o \in Observers : counter.observers[o] = "none"
  /\ counter' = initializeCounterAnimation(counter)
  /\ UNCHANGED <<mappingState, switcherState, tabs>>

\* lines 51-85: animateCounter sets a timer for every digit element, to
\* count up to the digit of targetNumber at the element's index
animateCounter(c) ==
  [c EXCEPT !.started = @ + 1,
            !.sinceStart = 0,
            !.ends = [i \in 1..Len(c.display) |->
                        targetDigit(numberString(c.targetNumber), i - 1)],
            !.stage = [i \in 1..Len(c.display) |-> "timer"],
            !.elapsed = [i \in 1..Len(c.display) |-> 0]]

\* the mark not looked at: every intersecting entry starts the animation
startsAnimation_unmarked(isIntersecting, animated) == isIntersecting

\* line 118: entry.isIntersecting && block.dataset.animated !== 'true'
startsAnimation(isIntersecting, animated) == isIntersecting /\ ~animated

\* lines 117-123: entries.forEach of the callback of observer o
RECURSIVE forEachEntry(_, _, _)
forEachEntry(c, o, entries) ==
  IF entries = <<>> THEN c
  ELSE forEachEntry(
         IF startsAnimation(Head(entries), c.animated)
         THEN [animateCounter([c EXCEPT !.animated = TRUE])
                 EXCEPT !.observers[o] = "unobserved"]
         ELSE c,
         o, Tail(entries))

\* the callback of observer o is called with entries
ObserverCallback(o, entries) ==
  /\ counter.pc = "decorated"
  /\ counter.observers[o] = "observing"
  /\ counter' = forEachEntry(counter, o, entries)
  /\ UNCHANGED <<mappingState, switcherState, tabs>>

\* the animation of some digit has not finished
Animating ==
  counter.started > 0 /\ \E i \in 1..Len(counter.stage) : counter.stage[i] # "done"

\* the delay of no timer is longer
LongestDelay == (Len(counter.display) - 1) * DURATION

\* a + step, stopping at most: of a time span only whether it has reached
\* a delay or the duration is read
Later(a, step, most) == IF a + step > most THEN most ELSE a + step

\* time passes: the time since animateCounter was called, and since the
\* timer of each digit fired (currentTime - startTime of lines 23-25)
Tick(step) ==
  /\ Animating
  /\ counter.sinceStart < LongestDelay
       \/ \E i \in 1..Len(counter.stage) :
            counter.stage[i] = "frames" /\ counter.elapsed[i] < DURATION
  /\ counter' = [counter EXCEPT
                   !.sinceStart = Later(@, step, LongestDelay),
                   !.elapsed = [i \in 1..Len(counter.elapsed) |->
                                  IF counter.stage[i] = "frames"
                                  THEN Later(counter.elapsed[i], step, DURATION)
                                  ELSE counter.elapsed[i]]]
  /\ UNCHANGED <<mappingState, switcherState, tabs>>

\* lines 62 and 76: the timer of digit element i (the first is 1) is due
\* after (i - 1) * DURATION / numberString.length
TimerDue(i) ==
  counter.sinceStart * Len(numberString(counter.targetNumber)) >= (i - 1) * DURATION

\* the timer of digit i fires, lines 22-42: startTime is read and the
\* first frame requested
TimerFires(i) ==
  /\ counter.started > 0
  /\ i \in 1..Len(counter.stage)
  /\ counter.stage[i] = "timer"
  /\ TimerDue(i)
  /\ counter' = [counter EXCEPT !.stage[i] = "frames", !.elapsed[i] = 0]
  /\ UNCHANGED <<mappingState, switcherState, tabs>>

\* lines 25-31: Math.floor(startValue + (endValue - startValue) *
\* (1 - (1 - progress) ** 3)) with startValue 0 and progress =
\* elapsed / duration, at most 1
easedValue(endValue, elapsed) ==
  LET whole == DURATION \div TimeGrain
      left == (DURATION - elapsed) \div TimeGrain
  IN IF endValue.t = "NaN" THEN NaN
     ELSE Num((endValue.n * (whole * whole * whole - left * left * left))
                \div (whole * whole * whole))

\* an animation frame, lines 24-40, run for every digit that has requested
\* one
Frame ==
  /\ counter.started > 0
  /\ \E i \in 1..Len(counter.stage) : counter.stage[i] = "frames"
  /\ counter' =
       [counter EXCEPT
          !.display = [i \in 1..Len(counter.display) |->
                         IF counter.stage[i] = "frames"
                         THEN textContent(easedValue(counter.ends[i],
                                                     counter.elapsed[i]))
                         ELSE counter.display[i]],
          !.stage = [i \in 1..Len(counter.stage) |->
                       IF counter.stage[i] = "frames"
                            /\ counter.elapsed[i] >= DURATION
                       THEN "done" ELSE counter.stage[i]]]
  /\ UNCHANGED <<mappingState, switcherState, tabs>>

\* no block of the page is decorated yet
BlocksIdle ==
  /\ configCache = Null
  /\ decorateCalls = [d \in DecorateIds |-> IdleDecorate]
  /\ switcherBlocks = [b \in SwitcherBlocks |-> IdleSwitcherBlock]
  /\ documentListeners = <<>>
  /\ tabs = IdleTabs
  /\ counter = IdleCounter

(***************************************************************************)
(* The loader under concurrent callers                                     *)
(***************************************************************************)
Init ==
  /\ urlMappingsCache = 0
  /\ mappingsLoadPromise = 0
  /\ loads = [k \in Loads |-> IdleLoad]
  /\ nLoads = 0
  /\ callers = [c \in Callers |-> IdleCaller]
  /\ mapCalls = [m \in MapCallIds |-> IdleMapCall]
  /\ alt = IdleAlt
  /\ cleared = FALSE
  /\ parseCall = IdleParse(<<"">>)
  /\ served = Null
  /\ BlocksIdle

Next ==
  \/ \E c \in Callers : CallLoadMappings(c)
  \/ \E c \in Callers : CallerResumes(c)
  \/ \E k \in Loads, o \in FetchOutcomes : SheetFetchSettles(k, o)
  \/ \E k \in Loads, b \in SheetBodies : SheetJsonSettles(k, b)
  \/ \E k \in Loads, o \in FetchOutcomes : FallbackFetchSettles(k, o)
  \/ \E k \in Loads, b \in FallbackBodies : FallbackJsonSettles(k, b)
  \/ ClearMappingsCache

Spec == Init /\ [][Next]_vars

(***************************************************************************)
(* One load cycle under its callers: the cache is never cleared            *)
(***************************************************************************)
NextLoad ==
  \/ \E c \in Callers : CallLoadMappings(c)
  \/ \E c \in Callers : CallerResumes(c)
  \/ \E k \in Loads, o \in FetchOutcomes : SheetFetchSettles(k, o)
  \/ \E k \in Loads, b \in SheetBodies : SheetJsonSettles(k, b)
  \/ \E k \in Loads, o \in FetchOutcomes : FallbackFetchSettles(k, o)
  \/ \E k \in Loads, b \in FallbackBodies : FallbackJsonSettles(k, b)

SpecLoad == Init /\ [][NextLoad]_vars

(***************************************************************************)
(* mapUrlToLanguage over the loader; the cache is never cleared            *)
(***************************************************************************)
NextMap ==
  \/ \E m \in MapCallIds, p \in MapPaths, t \in MapTargets :
       CallMapUrlToLanguage(m, p, t)
  \/ \E m \in MapCallIds : MapCallResumes(m)
  \/ \E k \in Loads, o \in FetchOutcomes : SheetFetchSettles(k, o)
  \/ \E k \in Loads, b \in SheetBodies : SheetJsonSettles(k, b)
  \/ \E k \in Loads, o \in FetchOutcomes : FallbackFetchSettles(k, o)
  \/ \E k \in Loads, b \in FallbackBodies : FallbackJsonSettles(k, b)

SpecMap == Init /\ [][NextMap]_vars

(***************************************************************************)
(* The loader: single flight, clearing, the cache                          *)
(***************************************************************************)
\* a step in which caller c calls loadMappings
IsCall(c) == callers[c].pc # "awaiting" /\ callers'[c].pc = "awaiting"

\* a load that an earlier call started after the last clearMappingsCache
\* and that is still in flight
CurrentInFlight(k) == loads[k].current /\ InFlight(k)

\* C1: a call of loadMappings made while the load of an earlier call is in
\* flight, with no clearMappingsCache between the two calls, starts no
\* fetch and resolves to the table of that load, as the earlier call does.
C1_SingleFlight ==
  [][\A c \in Callers : \A k \in Loads :
       (IsCall(c) /\ CurrentInFlight(k))
         => (nLoads' = nLoads /\ callers'[c].awaits = k)]_vars

\* C2: the first call of loadMappings after clearMappingsCache starts a new
\* load cycle (a new fetch of /url-mappings.json).
C2_ClearThenFreshLoad ==
  [][(cleared /\ ~cleared') => nLoads' = nLoads + 1]_vars

\* C3: a step that changes a non-null urlMappingsCache is a step of
\* clearMappingsCache, which sets it to null.
C3_CacheStableUntilClear ==
  [][urlMappingsCache # 0 => urlMappingsCache' \in {urlMappingsCache, 0}]_vars

\* a step of clearMappingsCache
IsClear == cleared' /\ urlMappingsCache' = 0 /\ mappingsLoadPromise' = 0

\* C18: once a load has resolved (its table, empty or not, is the cache),
\* and until clearMappingsCache is called, the cache stays that table, and
\* every call of loadMappings returns it and starts no load.
C18_ResolvedTableKept ==
  [][urlMappingsCache # 0 =>
       /\ ~IsClear => urlMappingsCache' = urlMappingsCache
       /\ \A c \in Callers :
            IsCall(c) => /\ callers'[c].awaits = urlMappingsCache
                         /\ nLoads' = nLoads]_vars

(***************************************************************************)
(* One load cycle: failures, the fallback file                             *)
(***************************************************************************)
\* C7: no load rejects and no caller of loadMappings sees a rejection,
\* whatever the two fetches answer; a load whose sheet gave nothing and
\* whose fallback fetch failed resolves to the empty table.
C7_LoadNeverRejects ==
  /\ \A k \in Loads :
       /\ loads[k].stage # "rejected"
       /\ (loads[k].stage = "resolved" /\ loads[k].fallback = "failed")
            => loads[k].mappings = EmptyObject
  /\ \A c \in Callers : callers[c].pc # "rejected"

\* a caller has got the empty table of a load both of whose fetches failed
C7_Witness ==
  \E c \in Callers :
    /\ callers[c].pc = "resolved"
    /\ loads[callers[c].awaits].fallback = "failed"
    /\ loads[callers[c].awaits].mappings = EmptyObject

\* the entries the rows of the sheet can give
SheetEntries ==
  {Obj([targetLocale |-> rowFields(row).targetLocale,
        targetPath |-> rowFields(row).targetPath]) :
     row \in {r \in SheetRows : ~GetThrows(r) /\ rowIsComplete(rowFields(r))}}

\* every entry of the table is an entry of a sheet row
SheetOnly(mappings) ==
  \A key \in DOMAIN mappings : \A path \in DOMAIN mappings[key].props :
    mappings[key].props[path] \in SheetEntries

\* C8: in a load cycle the fallback file is fetched if and only if the
\* sheet held no complete row, and not before the sheet attempt has
\* settled; a table loaded from a sheet with a complete row holds entries
\* of the sheet only.
C8_FallbackIffNoUsableRow ==
  \A k \in Loads :
    /\ loads[k].stage \in {"remoteFetch", "remoteJson"} => loads[k].fallback = "none"
    /\ loads[k].stage \in {"fallbackFetch", "fallbackJson", "resolved"} =>
         /\ (loads[k].fallback # "none") <=> ~loads[k].sheetUsable
         /\ loads[k].sheetUsable => SheetOnly(loads[k].mappings)

(***************************************************************************)
(* Load cycles of a sheet whose document is fixed                          *)
(***************************************************************************)
InitSheet ==
  /\ urlMappingsCache = 0
  /\ mappingsLoadPromise = 0
  /\ loads = [k \in Loads |-> IdleLoad]
  /\ nLoads = 0
  /\ callers = [c \in Callers |-> IdleCaller]
  /\ mapCalls = [m \in MapCallIds |-> IdleMapCall]
  /\ alt = IdleAlt
  /\ cleared = FALSE
  /\ parseCall = IdleParse(<<"">>)
  /\ served \in SheetBodies
  /\ BlocksIdle

NextSheet ==
  \/ \E c \in Callers : CallLoadMappings(c)
  \/ \E c \in Callers : CallerResumes(c)
  \/ \E k \in Loads, o \in FetchOutcomes : SheetFetchSettles(k, o)
  \/ \E k \in Loads : SheetJsonSettles(k, served)
  \/ \E k \in Loads, o \in FetchOutcomes : FallbackFetchSettles(k, o)
  \/ \E k \in Loads, b \in FallbackBodies : FallbackJsonSettles(k, b)

SpecSheet == InitSheet /\ [][NextSheet]_vars

\* the rows of the served document (none if it holds no data array)
ServedRows ==
  IF served.t = "object" /\ Get(served, "data").t = "array"
  THEN Get(served, "data").items ELSE <<>>

\* row i of the served document has the four fields
ServedComplete(i) ==
  ~GetThrows(ServedRows[i]) /\ rowIsComplete(rowFields(ServedRows[i]))

\* the table holds, at the source locale and path of row i, the target of
\* row i
HoldsRow(mappings, i) ==
  LET f == rowFields(ServedRows[i])
  IN /\ f.sourceLocale.s \in DOMAIN mappings
     /\ mappings[f.sourceLocale.s].t = "object"
     /\ f.sourcePath.s \in DOMAIN mappings[f.sourceLocale.s].props
     /\ mappings[f.sourceLocale.s].props[f.sourcePath.s] =
          Obj([targetLocale |-> f.targetLocale, targetPath |-> f.targetPath])

\* C17: the table of a load that read a sheet with a complete row holds
\* every complete row of the sheet, at its source locale and path (with the
\* target of that row or of another complete row of the same source), and
\* holds nothing else: rows without the four fields, and malformed rows,
\* are left out and take no other row with them.
C17_BadRowsSkippedAlone ==
  \A k \in Loads :
    (loads[k].stage = "resolved" /\ loads[k].sheetUsable) =>
      LET mappings == loads[k].mappings
          rows == 1..Len(ServedRows)
      IN /\ \A i \in rows : ServedComplete(i) =>
              \E j \in rows :
                /\ ServedComplete(j)
                /\ rowFields(ServedRows[j]).sourceLocale = rowFields(ServedRows[i]).sourceLocale
                /\ rowFields(ServedRows[j]).sourcePath = rowFields(ServedRows[i]).sourcePath
                /\ HoldsRow(mappings, j)
         /\ \A key \in DOMAIN mappings :
              /\ mappings[key].t = "object"
              /\ \A path \in DOMAIN mappings[key].props :
                   \E j \in rows :
                     /\ ServedComplete(j)
                     /\ rowFields(ServedRows[j]).sourceLocale = Str(key)
                     /\ rowFields(ServedRows[j]).sourcePath = Str(path)
                     /\ HoldsRow(mappings, j)

(***************************************************************************)
(* Load cycles of a sheet of more rows, some of the same source            *)
(***************************************************************************)
RepeatingArrays == UNION {[1..n -> SheetRows] : n \in 0..MaxRepeatedRows}

InitRows ==
  /\ urlMappingsCache = 0
  /\ mappingsLoadPromise = 0
  /\ loads = [k \in Loads |-> IdleLoad]
  /\ nLoads = 0
  /\ callers = [c \in Callers |-> IdleCaller]
  /\ mapCalls = [m \in MapCallIds |-> IdleMapCall]
  /\ alt = IdleAlt
  /\ cleared = FALSE
  /\ parseCall = IdleParse(<<"">>)
  /\ served \in {Obj([data |-> Arr(rows)]) : rows \in RepeatingArrays}
  /\ BlocksIdle

SpecRows == InitRows /\ [][NextSheet]_vars

\* rows i and j of the served document name the same source
SameSource(i, j) ==
  /\ rowFields(ServedRows[i]).sourceLocale = rowFields(ServedRows[j]).sourceLocale
  /\ rowFields(ServedRows[i]).sourcePath = rowFields(ServedRows[j]).sourcePath

\* C30: when several complete rows of the sheet name the same sourceLocale
\* and sourcePath, the table of a load that read the sheet holds, for that
\* source, the target of the last of them in the data array.
C30_LastRowWins ==
  \A k \in Loads :
    (loads[k].stage = "resolved" /\ loads[k].sheetUsable) =>
      \A i, j \in 1..Len(ServedRows) :
        ( /\ i < j
          /\ ServedComplete(i) /\ ServedComplete(j) /\ SameSource(i, j)
          /\ \A later \in (j + 1)..Len(ServedRows) :
               ~(ServedComplete(later) /\ SameSource(j, later)) )
          => HoldsRow(loads[k].mappings, j)

(***************************************************************************)
(* getAlternates over the loader; the cache is never cleared               *)
(***************************************************************************)
NextAlt ==
  \/ \E p \in MapPaths : CallGetAlternates(p)
  \/ \E i \in LocaleIds : AlternateResumes(i)
  \/ GetAlternatesReturns
  \/ \E k \in Loads, o \in FetchOutcomes : SheetFetchSettles(k, o)
  \/ \E k \in Loads, b \in SheetBodies : SheetJsonSettles(k, b)
  \/ \E k \in Loads, o \in FetchOutcomes : FallbackFetchSettles(k, o)
  \/ \E k \in Loads, b \in FallbackBodies : FallbackJsonSettles(k, b)

SpecAlt == Init /\ [][NextAlt]_vars

(***************************************************************************)
(* Callers, getAlternates and clearMappingsCache, every fetch settling     *)
(***************************************************************************)
\* the callbacks of one getAlternates call await the same promise, or none
\* of them awaits: their continuations are run in the order the awaits
\* were made (the job queue is first in, first out)
AlternateResumesInTurn(i) ==
  /\ alt.pc = "awaiting"
  /\ \A j \in 1..(i - 1) : alt.subs[j].pc = "done"
  /\ AlternateResumes(i)

\* what this specification draws: one direct caller of loadMappings next
\* to the eight lookups of getAlternates, a path with a supported locale
\* and one without, a body that cannot be parsed and one that holds mappings
LiveCallers == {1}
LivePaths == {PathAbout, PathShort}
LiveSheetBodies == {SyntaxError, Obj([data |-> Arr(<<RowCamel>>)])}
LiveFallbackBodies == {SyntaxError, FallbackEntries}

\* each caller calls once and getAlternates is called once
FirstCallLoadMappings(c) ==
  /\ callers[c].pc = "idle"
  /\ CallLoadMappings(c)

FirstCallGetAlternates(currentPath) ==
  /\ alt.pc = "idle"
  /\ CallGetAlternates(currentPath)

NextLive ==
  \/ \E c \in LiveCallers : FirstCallLoadMappings(c)
  \/ \E c \in LiveCallers : CallerResumes(c)
  \/ \E p \in LivePaths : FirstCallGetAlternates(p)
  \/ \E i \in LocaleIds : AlternateResumesInTurn(i)
  \/ GetAlternatesReturns
  \/ \E k \in Loads, o \in FetchOutcomes : SheetFetchSettles(k, o)
  \/ \E k \in Loads, b \in LiveSheetBodies : SheetJsonSettles(k, b)
  \/ \E k \in Loads, o \in FetchOutcomes : FallbackFetchSettles(k, o)
  \/ \E k \in Loads, b \in LiveFallbackBodies : FallbackJsonSettles(k, b)
  \/ ClearMappingsCache

\* a fetch or the reading of a body settles, or a continuation whose
\* promise has settled is run
LiveProgress ==
  \/ \E c \in LiveCallers : CallerResumes(c)
  \/ \E i \in LocaleIds : AlternateResumesInTurn(i)
  \/ GetAlternatesReturns
  \/ \E k \in Loads, o \in FetchOutcomes : SheetFetchSettles(k, o)
  \/ \E k \in Loads, b \in LiveSheetBodies : SheetJsonSettles(k, b)
  \/ \E k \in Loads, o \in FetchOutcomes : FallbackFetchSettles(k, o)
  \/ \E k \in Loads, b \in LiveFallbackBodies : FallbackJsonSettles(k, b)

\* as long as a fetch is pending or a continuation is ready, one of them
\* is eventually served; nothing obliges anyone to call or to clear
FairLive == WF_vars(LiveProgress)

SpecLive == Init /\ [][NextLive]_vars /\ FairLive

\* C19: every call of loadMappings that awaits a load resolves, and every
\* call of getAlternates returns, also when clearMappingsCache is called
\* while the load they await is in flight.
C19_CallsResolve ==
  /\ \A c \in LiveCallers : (callers[c].pc = "awaiting") ~> (callers[c].pc = "resolved")
  /\ (alt.pc = "awaiting") ~> (alt.pc = "returned")

\* a caller has got the table of a load that clearMappingsCache overtook
\* (the load has written the cache, and its promise is no longer the
\* module's), and getAlternates has returned on that load
C19_Witness ==
  \E c \in LiveCallers : \E k \in Loads :
    /\ callers[c].pc = "resolved" /\ callers[c].awaits = k
    /\ urlMappingsCache = k /\ mappingsLoadPromise # k
    /\ alt.pc = "returned" /\ alt.subs[1].awaits = k

(***************************************************************************)
(* mapUrlToLanguage: what a call returns                                   *)
(***************************************************************************)
\* C4: a call of mapUrlToLanguage does not throw, and the value it returns
\* is neither undefined nor null, whatever the two fetches answered.
C4_MapNeverUndefined ==
  \A m \in MapCallIds :
    /\ mapCalls[m].pc # "threw"
    /\ mapCalls[m].pc = "returned" => mapCalls[m].result.t \notin {"undefined", "null"}

\* a step in which call m of mapUrlToLanguage is made
IsMapCall(m) == mapCalls[m].pc = "idle" /\ mapCalls'[m].pc # "idle"

\* C9: a call of mapUrlToLanguage whose current path does not parse to a
\* supported locale returns the homepage of the target locale in the step
\* of the call, and no load is started, nor the cache or the load promise
\* changed.
C9_InvalidPathNoLookup ==
  [][\A m \in MapCallIds :
       (IsMapCall(m) /\ ~parseLocale(mapCalls'[m].currentPath).isValid)
         => /\ mapCalls'[m].pc = "returned"
            /\ mapCalls'[m].result =
                 Str(buildLocalePrefix(mapCalls'[m].targetLang,
                                       mapCalls'[m].targetCountry) \o <<"">>)
            /\ mapCalls'[m].awaits = 0
            /\ UNCHANGED <<urlMappingsCache, mappingsLoadPromise, loads, nLoads>>]_vars

\* a call with an unsupported current path has returned the homepage of
\* /ch/de, and no load was ever started
C9_Witness ==
  \E m \in MapCallIds :
    /\ mapCalls[m].pc = "returned"
    /\ mapCalls[m].currentPath = PathItUk
    /\ mapCalls[m].result = Str(<<"", "ch", "de", "">>)
    /\ nLoads = 0

\* the table of load k holds an entry for the locale key and the path of
\* call m
HasEntry(m) ==
  LET c == mapCalls[m]
      p == parseLocale(c.currentPath)
      mappings == loads[c.awaits].mappings
  IN /\ c.awaits # 0
     /\ p.isValid
     /\ <<p.lang, p.country>> \in DOMAIN mappings
     /\ c.currentPath \in DOMAIN mappings[<<p.lang, p.country>>].props

EntryOf(m) ==
  LET c == mapCalls[m]
      p == parseLocale(c.currentPath)
  IN loads[c.awaits].mappings[<<p.lang, p.country>>].props[c.currentPath]

LookedUpNoEntry(m) ==
  /\ mapCalls[m].pc = "returned"
  /\ parseLocale(mapCalls[m].currentPath).isValid
  /\ mapCalls[m].awaits # 0
  /\ ~HasEntry(m)

\* C11: a call with a valid current path whose table holds no entry for
\* its locale key and path returns the target prefix followed by the parsed
\* remainder if the remainder is not '/', and the target homepage (the
\* prefix and '/') if the path is a locale root.
C11_NoEntryFallback ==
  \A m \in MapCallIds :
    LookedUpNoEntry(m) =>
      LET c == mapCalls[m]
          remainder == parseLocale(c.currentPath).remainder
          targetPrefix == buildLocalePrefix(c.targetLang, c.targetCountry)
      IN c.result = Str(IF remainder # <<"", "">>
                        THEN targetPrefix \o Tail(remainder)
                        ELSE targetPrefix \o <<"">>)

\* with an empty table, /en/uk/about has gone to /ch/de/about and the
\* locale root /en/uk to the homepage /ch/de/
C11_Witness ==
  \E m1, m2 \in MapCallIds :
    /\ LookedUpNoEntry(m1) /\ LookedUpNoEntry(m2)
    /\ loads[mapCalls[m1].awaits].mappings = EmptyObject
    /\ mapCalls[m1].currentPath = PathAbout
    /\ mapCalls[m1].result = Str(<<"", "ch", "de", "about">>)
    /\ mapCalls[m2].currentPath = PathRoot
    /\ mapCalls[m2].result = Str(<<"", "ch", "de", "">>)

\* the 'lang-country' keys of the supported-locale table
SupportedKeys ==
  {<<SUPPORTED_LOCALES[i].lang, SUPPORTED_LOCALES[i].country>> :
     i \in 1..Len(SUPPORTED_LOCALES)}

(***************************************************************************)
(* parseLocale on every path                                               *)
(***************************************************************************)
InitParse ==
  /\ urlMappingsCache = 0
  /\ mappingsLoadPromise = 0
  /\ loads = [k \in Loads |-> IdleLoad]
  /\ nLoads = 0
  /\ callers = [c \in Callers |-> IdleCaller]
  /\ mapCalls = [m \in MapCallIds |-> IdleMapCall]
  /\ alt = IdleAlt
  /\ cleared = FALSE
  /\ \E path \in ParsePaths : parseCall = IdleParse(path)
  /\ served = Null
  /\ BlocksIdle

NextParse ==
  \/ CallParseLocale
  \/ CallBuildLocalePrefix
  \/ CallGetCurrentLocale

SpecParse == InitParse /\ [][NextParse]_vars

\* the non-empty pieces of a path, in their order
Segments(path) == SelectSeq(path, LAMBDA piece : piece # "")

\* parseLocale has returned for a path with at least two segments
ParsedLong == parseCall.pc # "idle" /\ Len(Segments(parseCall.path)) >= 2

\* C12: for a path with at least two non-empty segments parseLocale
\* returns order 'country-lang', country the first and lang the second
\* segment if the first segment is 'ch' (the configured country-first
\* set), and else order 'lang-country', lang the first and country the
\* second segment, whatever the second segment is.
C12_OrderByFirstSegment ==
  ParsedLong =>
    LET first == Segments(parseCall.path)[1]
        second == Segments(parseCall.path)[2]
        r == parseCall.parsed
    IN IF first = "ch"
       THEN r.order = "country-lang" /\ r.country = first /\ r.lang = second
       ELSE r.order = "lang-country" /\ r.lang = first /\ r.country = second

\* /ch/de/about has been parsed as country first: country ch, lang de
C12_Witness ==
  /\ parseCall.pc # "idle"
  /\ parseCall.path = <<"", "ch", "de", "about">>
  /\ parseCall.parsed.order = "country-lang"
  /\ parseCall.parsed.country = "ch"
  /\ parseCall.parsed.lang = "de"

\* parseLocale has returned for a path with fewer than two segments
ParsedShort ==
  /\ parseCall.pc # "idle"
  /\ Cardinality({i \in 1..Len(parseCall.path) : parseCall.path[i] # ""}) < 2

\* C13: for a path with fewer than two non-empty segments parseLocale
\* returns order, lang and country null, isValid false, localePrefix ''
\* and the path itself as remainder.
C13_ShortPathInvalid ==
  ParsedShort =>
    parseCall.parsed =
      [order |-> "null", lang |-> "null", country |-> "null",
       remainder |-> parseCall.path, localePrefix |-> <<"">>, isValid |-> FALSE]

\* '/en' has been parsed: invalid, remainder '/en'
C13_Witness ==
  /\ ParsedShort
  /\ parseCall.path = <<"", "en">>
  /\ ~parseCall.parsed.isValid
  /\ parseCall.parsed.remainder = <<"", "en">>

\* C14: for a valid path, buildLocalePrefix of the parsed lang and country
\* is the parsed localePrefix.
C14_PrefixRoundTrip ==
  (parseCall.pc = "built" /\ parseCall.parsed.isValid)
    => parseCall.prefix = Str(parseCall.parsed.localePrefix)

\* C15: for a path with at least two segments the parsed order is
\* getLocaleOrder of the parsed country.
C15_OrderByCountry ==
  ParsedLong => parseCall.parsed.order = getLocaleOrder(parseCall.parsed.country)

\* C16: for a path with at least two segments isValid is true exactly if
\* the pair of the first two segments, read in the order the first segment
\* decides, is an entry of the supported-locale table.
C16_ValidIffInTable ==
  ParsedLong =>
    LET first == Segments(parseCall.path)[1]
        second == Segments(parseCall.path)[2]
        pair == IF first = "ch" THEN <<second, first>> ELSE <<first, second>>
    IN /\ parseCall.parsed.isValid <=> pair \in SupportedKeys
       /\ <<parseCall.parsed.lang, parseCall.parsed.country>> = pair

\* /it/uk has been parsed: lang it, country uk, both codes of the table,
\* and isValid false
C16_Witness ==
  /\ parseCall.pc # "idle"
  /\ parseCall.path = <<"", "it", "uk">>
  /\ parseCall.parsed.lang = "it" /\ parseCall.parsed.country = "uk"
  /\ ~parseCall.parsed.isValid

\* C21: getCurrentLocale returns a locale of the supported-locale table:
\* the locale of the first two segments of the pathname if they are an
\* entry of the table (in the order the first segment decides), with its
\* key, and else lang 'en', country 'uk', localeKey 'en-uk' and prefix
\* '/en/uk', also for a pathname with fewer than two segments.
C21_CurrentLocaleSupported ==
  parseCall.pc = "located" =>
    LET segments == Segments(parseCall.path)
        pair == IF Len(segments) < 2 THEN <<>>
                ELSE IF segments[1] = "ch" THEN <<segments[2], segments[1]>>
                ELSE <<segments[1], segments[2]>>
        c == parseCall.current
    IN /\ <<c.lang, c.country>> \in SupportedKeys
       /\ c.localeKey = <<c.lang, c.country>>
       /\ pair \in SupportedKeys => <<c.lang, c.country>> = pair
       /\ pair \notin SupportedKeys =>
            c = [lang |-> "en", country |-> "uk", localeKey |-> <<"en", "uk">>,
                 prefix |-> <<"", "en", "uk">>]

\* getCurrentLocale has returned the default on /it/uk, two codes of the
\* table that are no entry of it
C21_Witness ==
  /\ parseCall.pc = "located"
  /\ parseCall.path = <<"", "it", "uk">>
  /\ parseCall.current.localeKey = <<"en", "uk">>

\* the URL prefixes the README of the language switcher lists under
\* Supported Locales, as pairs of segments
ReadmePrefixes ==
  {<<"en", "uk">>, <<"en", "us">>, <<"ch", "de">>, <<"ch", "fr">>,
   <<"ch", "it">>, <<"de", "de">>, <<"fr", "fr">>, <<"it", "it">>,
   <<"pl", "pl">>}

\* the 'lang-country' key of a listed prefix
ReadmeKey(prefix) ==
  IF prefix[1] = "ch" THEN <<prefix[2], prefix[1]>> ELSE prefix

\* C22: parseLocale of a path that begins with a prefix the README lists
\* under Supported Locales returns isValid true, and the object
\* getAlternates returns has an entry for every listed locale.
C22_ReadmeLocalesSupported ==
  /\ (ParsedLong /\ SubSeq(Segments(parseCall.path), 1, 2) \in ReadmePrefixes)
       => parseCall.parsed.isValid
  /\ alt.pc = "returned" =>
       \A prefix \in ReadmePrefixes : ReadmeKey(prefix) \in DOMAIN alt.alternates

(***************************************************************************)
(* getAlternates: what a call returns                                      *)
(***************************************************************************)
\* C5: the object getAlternates returns has exactly the keys of the
\* supported-locale table, one per entry, whatever the fetches answered.
C5_OneKeyPerLocale ==
  alt.pc = "returned" =>
    /\ DOMAIN alt.alternates = SupportedKeys
    /\ Cardinality(DOMAIN alt.alternates) = Len(SUPPORTED_LOCALES)

\* getAlternates has returned for a page whose table came from the fallback
\* file, and for a page when both fetches had failed
C5_Witness ==
  /\ alt.pc = "returned"
  /\ alt.currentPath = PathAbout
  /\ \E k \in Loads :
       /\ alt.subs[1].awaits = k
       /\ loads[k].fallback = "assigned"
       /\ loads[k].mappings # EmptyObject

\* C6: every value of the object getAlternates returns is a non-empty
\* string.
C6_AlternatesAreUrls ==
  alt.pc = "returned" =>
    \A key \in DOMAIN alt.alternates :
      alt.alternates[key].t = "string" /\ alt.alternates[key].s # <<"">>

\* the entry callback i assigns, from what its own lookup gives
ownEntry(i) ==
  LET r == alternateResult(i)
  IN IF r.threw
     THEN Str(homepage(getAllLocales[i].lang, getAllLocales[i].country))
     ELSE r.value

\* the object assembled by the first n callbacks taken in the order of the
\* locales
RECURSIVE assembledInOrder(_)
assembledInOrder(n) ==
  IF n = 0 THEN EmptyObject
  ELSE assignAlternate(assembledInOrder(n - 1), alt.subs[n].localeKey,
                       getAllLocales[n], alternateResult(n))

\* the callbacks that have gone on after their await
DoneIds == {i \in LocaleIds : alt.subs[i].pc = "done"}

\* C20: in whatever order the callbacks of a getAlternates call go on, the
\* lookups that await a load await the same one, the object holds for each
\* callback that has gone on the entry its own lookup gives and nothing
\* else, and the object returned is the one assembled in the order of the
\* locales.
C20_OrderIndependent ==
  alt.pc \in {"awaiting", "returned"} =>
    /\ \A i, j \in LocaleIds :
         (alt.subs[i].awaits # 0 /\ alt.subs[j].awaits # 0)
           => alt.subs[i].awaits = alt.subs[j].awaits
    /\ DOMAIN alt.alternates = {alt.subs[i].localeKey : i \in DoneIds}
    /\ \A i \in DoneIds : alt.alternates[alt.subs[i].localeKey] = ownEntry(i)
    /\ alt.pc = "returned" => alt.alternates = assembledInOrder(Len(getAllLocales))

\* the callback of the last locale has gone on before that of the first,
\* on a table that holds mappings
C20_Witness ==
  /\ alt.pc = "awaiting"
  /\ alt.currentPath = PathAbout
  /\ alt.subs[Len(getAllLocales)].pc = "done"
  /\ alt.subs[1].pc = "awaiting"
  /\ \E k \in Loads :
       /\ alt.subs[1].awaits = k
       /\ loads[k].stage = "resolved"
       /\ loads[k].mappings # EmptyObject

(***************************************************************************)
(* The language switcher: decorate calls and the events of the page        *)
(***************************************************************************)
NextSwitcher ==
  \/ \E d \in DecorateIds, b \in SwitcherBlocks : CallDecorate(d, b)
  \/ \E d \in DecorateIds, o \in FetchOutcomes : ConfigFetchSettles(d, o)
  \/ \E d \in DecorateIds, body \in RuntimeBodies : ConfigJsonSettles(d, body)
  \/ \E d \in DecorateIds : DecorateGotConfig(d)
  \/ \E d \in DecorateIds, o \in {"resolved", "rejected"} : PlaceholdersSettle(d, o)
  \/ \E d \in DecorateIds, a \in AlternatesResults : AlternatesSettle(d, a)
  \/ \E d \in DecorateIds : ClickButton(d)
  \/ \E inside \in DecorateIds \cup {0} : ClickDocument(inside)
  \/ \E key \in Keys : Keydown(key)

SpecSwitcher == Init /\ [][NextSwitcher]_vars

\* how many times the document-level listeners were added by calls of
\* decorate on block b
ListenersOf(b) ==
  Cardinality({i \in 1..Len(documentListeners) :
                 decorateCalls[documentListeners[i]].block = b})

\* C23: whatever calls of decorate are made on a block, overlapping or not,
\* its menu is built at most once and the document-level click and keydown
\* listeners are added at most once for it.
C23_DecoratedOnce ==
  \A b \in SwitcherBlocks :
    switcherBlocks[b].builds <= 1 /\ ListenersOf(b) <= 1

\* loadConfig(block) has returned a configuration to call d of decorate
GotConfig(d) ==
  decorateCalls[d].pc \in {"config", "placeholders", "alternates", "done"}

\* C24: the configuration loadConfig(block) returns has the block-level
\* settings of the data attributes of that block, whatever calls came
\* before and whatever the runtime file sets.
C24_ConfigOfItsBlock ==
  \A d \in DecorateIds :
    GotConfig(d) =>
      LET config == decorateCalls[d].config
          bc == blockConfig(SwitcherDataset(decorateCalls[d].block))
          display == Get(config, "display")
          behavior == Get(config, "behavior")
      IN /\ Get(display, "showCountryFlags") = bc.showCountryFlags
         /\ Get(display, "groupByCountry") = bc.groupByCountry
         /\ Get(display, "compactMode") = Bool(bc.displayMode = Str(<<"compact">>))
         /\ Get(behavior, "preservePath") = bc.preservePath
         /\ Get(Get(behavior, "autoDetect"), "enabled") = bc.autoDetect
         /\ Get(Get(Get(config, "ui"), "labels"), "selectLanguage") = bc.customLabel
         /\ Get(config, "supportedLocales") = bc.supportedLocales
         /\ Get(config, "fallbackLocale") = bc.fallbackLocale

\* C25: the aria-expanded attribute of a switcher's button is 'true'
\* exactly when its container has the class 'open', after any clicks and
\* key presses, and a new menu is closed.
C25_ExpandedIffOpen ==
  /\ [](\A d \in DecorateIds :
         decorateCalls[d].pc \in {"alternates", "done"} =>
           (decorateCalls[d].ariaExpanded = "true" <=> decorateCalls[d].open))
  /\ [][\A d \in DecorateIds :
          (decorateCalls[d].pc # "done" /\ decorateCalls'[d].pc = "done")
            => ~decorateCalls'[d].open]_vars

\* a decorated switcher's menu is open
C25_Witness ==
  \E d \in Attached :
    decorateCalls[d].open /\ decorateCalls[d].ariaExpanded = "true"

(***************************************************************************)
(* The tabs block under clicks and key presses                             *)
(***************************************************************************)
NextTabs ==
  \/ \E rows \in TabBlocks : DecorateTabs(rows)
  \/ \E i \in 1..MaxTabRows : ClickTab(i)
  \/ \E i \in 1..MaxTabRows, key \in TabKeys : KeydownTab(i, key)

SpecTabs == Init /\ [][NextTabs]_vars

NextTabsOfRows ==
  \/ \E rows \in TabBlocks : DecorateTabsOfRows(rows)
  \/ \E i \in 1..MaxTabRows : ClickTab(i)
  \/ \E i \in 1..MaxTabRows, key \in TabKeys : KeydownTab(i, key)

SpecTabsOfRows == Init /\ [][NextTabsOfRows]_vars

\* tab i is the active one: its button has the class, aria-selected 'true'
\* and tabIndex 0, and its panel is the only one that is not hidden
OnlyActive(items, i) ==
  \A j \in 1..Len(items) :
    IF j = i
    THEN items[j].active /\ items[j].selected = "true" /\ items[j].tabIndex = 0
           /\ ~items[j].hidden
    ELSE ~items[j].active /\ items[j].selected = "false" /\ items[j].tabIndex = -1
           /\ items[j].hidden

\* C26: in a tabs block decorated from at least one valid row, after any
\* clicks on tab buttons and any arrow, Home or End keydown on any tab
\* button, exactly one button is active and exactly its panel is visible.
C26_OneActiveTab ==
  tabs.pc = "decorated" =>
    \E i \in 1..Len(tabs.items) : OnlyActive(tabs.items, i)

\* C27: the variant's decorate, on a block with at least one row that has
\* both cells, leaves exactly one active button, its panel the only
\* visible one, whichever rows are malformed, and a click on any button
\* then switches to it without error.
C27_VariantOneActiveTab ==
  (tabs.pc = "decorated" /\ \E r \in 1..Len(tabs.rows) : HasBothCells(tabs.rows[r])) =>
    /\ ~tabs.threw
    /\ \E i \in 1..Len(tabs.items) :
         /\ OnlyActive(tabs.items, i)
         /\ tabs.focus # 0 => tabs.focus = i

(***************************************************************************)
(* The info counter: observers, timers and animation frames                *)
(***************************************************************************)
NextCounter ==
  \/ \E target \in CounterTargets : DecorateCounter(target)
  \/ CallInitializeCounterAnimation
  \/ \E o \in Observers, entries \in EntryLists : ObserverCallback(o, entries)
  \/ \E step \in TimeSteps : Tick(step)
  \/ \E i \in 1..Len(counter.display) : TimerFires(i)
  \/ Frame

SpecCounter == Init /\ [][NextCounter]_vars

\* C28: animateCounter is called at most once for a block, whatever
\* entries the observers' callbacks are given and however often
\* initializeCounterAnimation is called.
C28_AnimatedOnce == counter.started <= 1

\* the animation was started while two observers watched the block
C28_Witness ==
  /\ counter.started = 1
  /\ \A o \in Observers : counter.observers[o] # "none"

\* the timers and the frames of a page that stays open: time passes, a due
\* timer fires, a requested frame is run
FairCounter ==
  /\ WF_vars(\E step \in TimeSteps : Tick(step))
  /\ WF_vars(\E i \in 1..Len(counter.display) : TimerFires(i))
  /\ WF_vars(Frame)

SpecCounterLive == Init /\ [][NextCounter]_vars /\ FairCounter

\* every digit element has counted to its end
Completed ==
  counter.started > 0 /\ \A i \in 1..Len(counter.stage) : counter.stage[i] = "done"

\* C29: once the block has entered the viewport the animation completes;
\* when it has completed the digit elements read the decimal digits of the
\* target number, and until then every element shows a digit between 0 and
\* the target's digit at its place.
C29_CountsToTarget ==
  /\ [](counter.started > 0 =>
          /\ \A i \in 1..Len(counter.display) :
               /\ IsDigitChar(counter.display[i])
               /\ i <= Len(counter.target)
               /\ DigitOf(counter.display[i]) <= counter.target[i]
          /\ Completed => counter.display = Decimal(counter.target))
  /\ (counter.started > 0 ~> Completed)

====
